---------------------------- MODULE Spec2Model ----------------------------
(***************************************************************************)
(* A model of beatmapbot.py: the URL extractor (get_map_params,            *)
(* get_maps_from_html, get_maps_from_thing), the idempotency check         *)
(* (has_replied), the reply guard (reply), the stream walk (thing_loop)    *)
(* and the startup code and main loop with its two exception handlers.     *)
(*                                                                         *)
(* Strings the code takes apart are sequences of one-character strings;    *)
(* a character the module cannot hold as it is, is written "U+XXXX".       *)
(* The HTML of a body is such a sequence, and URL_REGEX is matched on it   *)
(* character by character.  get_map_params is given the part of a URL      *)
(* after "https://osu.ppy.sh": URL_REGEX fixes scheme and host, so         *)
(* urlparse's scheme and netloc carry no information.  html.unescape       *)
(* resolves the 2231 names of html.entities.html5 and the decimal and      *)
(* hexadecimal numeric references, and raises where int() does;            *)
(* parse_qs decodes percent escapes as UTF-8.                              *)
(***************************************************************************)
EXTENDS Integers, Sequences, FiniteSets, TLC

VARIABLES
    pc,            \* where the process is: boot, poll_*, walk_*, sleep, backoff, exited
    config_exists, \* os.path.exists("config.ini")
    logged_in,     \* r.login(...) has returned
    exit_code,     \* -1 while running, else the process's exit status
    stdout,        \* what the process printed as it exited ("" while it runs)
    things,        \* per stream type: what the listing returns, newest first
    next_id,       \* per stream type: how many things the platform has issued
    replies,       \* per stream type and thing id: the replies the bot has posted to it
    seen,          \* per stream type: the LimitedSet, oldest insertion first
    content,       \* the listing the current walk iterates
    idx,           \* position of the walk in content (1-based, next to visit)
    walk_log,      \* history: what the current (or last) walk did, item by item
    walk_end,      \* history: how the current (or last) walk ended
    inserted,      \* history: per stream type, the last ids handed to seen.add
    call           \* a call of a pure function: its input and its result

vars == <<pc, config_exists, logged_in, exit_code, stdout, things, next_id,
          replies, seen, content, idx, walk_log, walk_end, inserted, call>>

loop_vars == <<pc, config_exists, logged_in, exit_code, stdout, things,
               next_id, replies, seen, content, idx, walk_log, walk_end, inserted>>

(***************************************************************************)
(* Bounds of the model.  The two safety margins of the RecencySets are 100 *)
(* and 50 in the source (lines 227-228); they are scaled down so that a    *)
(* set can fill up and evict within the bounded number of things.          *)
(***************************************************************************)
MaxThings == 4

CommentMargin == 1

SubmissionMargin == 1

MaxIdLen == 2

MaxAnchors == 2

\* config.ini, section bot: max_comments and max_submissions.
MAX_COMMENTS == 2

MAX_SUBMISSIONS == 1

StreamTypes == {"comment", "submission"}

(***************************************************************************)
(* Character sequences.                                                    *)
(***************************************************************************)
Digits == {"0", "1", "2", "3", "4", "5", "6", "7", "8", "9"}

\* str.find: the first index of c in s, 0 when absent.
Find(s, c) ==
    IF \E i \in 1..Len(s) : s[i] = c
    THEN CHOOSE i \in 1..Len(s) : s[i] = c /\ \A j \in 1..(i - 1) : s[j] # c
    ELSE 0

\* str.rfind: the last index of c in s, 0 when absent.
RFind(s, c) ==
    IF \E i \in 1..Len(s) : s[i] = c
    THEN CHOOSE i \in 1..Len(s) : s[i] = c /\ \A j \in (i + 1)..Len(s) : s[j] # c
    ELSE 0

\* s[:i-1] and s[i+1:] around the 1-based index i.
Before(s, i) == SubSeq(s, 1, i - 1)

After(s, i) == SubSeq(s, i + 1, Len(s))

\* str.startswith
StartsWith(s, p) == Len(s) >= Len(p) /\ SubSeq(s, 1, Len(p)) = p

\* str.split(c)
RECURSIVE Split(_, _)
Split(s, c) ==
    IF Find(s, c) = 0 THEN <<s>>
    ELSE <<Before(s, Find(s, c))>> \o Split(After(s, Find(s, c)), c)

(***************************************************************************)
(* Characters.  A character is a string of length one where TLA+ can       *)
(* write it and the model's tables name it: the printable ASCII            *)
(* characters but the backquote, four white space characters and the       *)
(* characters of the table html5 below.  Every other character is the      *)
(* token "U+" and its code point in hexadecimal, e.g. "U+1BB1".            *)
(***************************************************************************)
HexChars == <<"0", "1", "2", "3", "4", "5", "6", "7", "8", "9",
              "A", "B", "C", "D", "E", "F">>

\* [0-9a-fA-F]
HexDigits == Digits \cup {"a", "b", "c", "d", "e", "f", "A", "B", "C", "D", "E", "F"}

\* The value of a hexadecimal digit.
digit_value(c) ==
    CHOOSE v \in 0..15 :
        \/ c = HexChars[v + 1]
        \/ v >= 10 /\ c = <<"a", "b", "c", "d", "e", "f">>[v - 9]

\* n in hexadecimal, at least width digits long.
RECURSIVE hex(_, _)
hex(n, width) ==
    IF n = 0 /\ width <= 0 THEN ""
    ELSE hex(n \div 16, width - 1) \o HexChars[(n % 16) + 1]

\* The code points whose character is written as itself, each with its
\* character.
Written ==
    {<<9, "\t">>, <<10, "\n">>, <<12, "\f">>, <<13, "\r">>, <<32, " ">>,
     <<33, "!">>, <<34, "\"">>, <<35, "#">>, <<36, "$">>, <<37, "%">>,
     <<38, "&">>, <<39, "'">>, <<40, "(">>, <<41, ")">>, <<42, "*">>,
     <<43, "+">>, <<44, ",">>, <<45, "-">>, <<46, ".">>, <<47, "/">>,
     <<48, "0">>, <<49, "1">>, <<50, "2">>, <<51, "3">>, <<52, "4">>,
     <<53, "5">>, <<54, "6">>, <<55, "7">>, <<56, "8">>, <<57, "9">>,
     <<58, ":">>, <<59, ";">>, <<60, "<">>, <<61, "=">>, <<62, ">">>,
     <<63, "?">>, <<64, "@">>, <<65, "A">>, <<66, "B">>, <<67, "C">>,
     <<68, "D">>, <<69, "E">>, <<70, "F">>, <<71, "G">>, <<72, "H">>,
     <<73, "I">>, <<74, "J">>, <<75, "K">>, <<76, "L">>, <<77, "M">>,
     <<78, "N">>, <<79, "O">>, <<80, "P">>, <<81, "Q">>, <<82, "R">>,
     <<83, "S">>, <<84, "T">>, <<85, "U">>, <<86, "V">>, <<87, "W">>,
     <<88, "X">>, <<89, "Y">>, <<90, "Z">>, <<91, "[">>, <<92, "\\">>,
     <<93, "]">>, <<94, "^">>, <<95, "_">>, <<97, "a">>, <<98, "b">>,
     <<99, "c">>, <<100, "d">>, <<101, "e">>, <<102, "f">>, <<103, "g">>,
     <<104, "h">>, <<105, "i">>, <<106, "j">>, <<107, "k">>, <<108, "l">>,
     <<109, "m">>, <<110, "n">>, <<111, "o">>, <<112, "p">>, <<113, "q">>,
     <<114, "r">>, <<115, "s">>, <<116, "t">>, <<117, "u">>, <<118, "v">>,
     <<119, "w">>, <<120, "x">>, <<121, "y">>, <<122, "z">>, <<123, "{">>,
     <<124, "|">>, <<125, "}">>, <<126, "~">>, <<177, "±">>, <<178, "²">>,
     <<185, "¹">>, <<946, "β">>, <<951, "η">>, <<956, "μ">>, <<964, "τ">>,
     <<8614, "↦">>, <<8834, "⊂">>, <<8835, "⊃">>, <<8838, "⊆">>,
     <<8839, "⊇">>, <<8888, "⊸">>, <<10236, "⟼">>, <<10922, "⪪">>,
     <<10924, "⪬">>, <<10963, "⫓">>, <<10964, "⫔">>, <<10965, "⫕">>,
     <<10966, "⫖">>}

\* chr(n)
chr(n) ==
    IF \E w \in Written : w[1] = n THEN (CHOOSE w \in Written : w[1] = n)[2]
    ELSE "U+" \o hex(n, 4)

\* The characters c with c.isdigit(): those of Unicode 14.0 (CPython 3.11)
\* that have a digit value, by their code points.
DigitChars ==
    {chr(n) : n \in
        (48..57) \cup (178..179) \cup {185} \cup (1632..1641) \cup
        (1776..1785) \cup (1984..1993) \cup (2406..2415) \cup (2534..2543) \cup
        (2662..2671) \cup (2790..2799) \cup (2918..2927) \cup (3046..3055) \cup
        (3174..3183) \cup (3302..3311) \cup (3430..3439) \cup (3558..3567) \cup
        (3664..3673) \cup (3792..3801) \cup (3872..3881) \cup (4160..4169) \cup
        (4240..4249) \cup (4969..4977) \cup (6112..6121) \cup (6160..6169) \cup
        (6470..6479) \cup (6608..6618) \cup (6784..6793) \cup (6800..6809) \cup
        (6992..7001) \cup (7088..7097) \cup (7232..7241) \cup (7248..7257) \cup
        {8304} \cup (8308..8313) \cup (8320..8329) \cup (9312..9320) \cup
        (9332..9340) \cup (9352..9360) \cup {9450} \cup (9461..9469) \cup
        {9471} \cup (10102..10110) \cup (10112..10120) \cup (10122..10130) \cup
        (42528..42537) \cup (43216..43225) \cup (43264..43273) \cup
        (43472..43481) \cup (43504..43513) \cup (43600..43609) \cup
        (44016..44025) \cup (65296..65305) \cup (66720..66729) \cup
        (68160..68163) \cup (68912..68921) \cup (69216..69224) \cup
        (69714..69722) \cup (69734..69743) \cup (69872..69881) \cup
        (69942..69951) \cup (70096..70105) \cup (70384..70393) \cup
        (70736..70745) \cup (70864..70873) \cup (71248..71257) \cup
        (71360..71369) \cup (71472..71481) \cup (71904..71913) \cup
        (72016..72025) \cup (72784..72793) \cup (73040..73049) \cup
        (73120..73129) \cup (92768..92777) \cup (92864..92873) \cup
        (93008..93017) \cup (120782..120831) \cup (123200..123209) \cup
        (123632..123641) \cup (125264..125273) \cup (127232..127242) \cup
        (130032..130041)}

\* str.isdigit
isdigit(s) == Len(s) > 0 /\ \A i \in 1..Len(s) : s[i] \in Digits \/ s[i] \in DigitChars

(***************************************************************************)
(* urllib.parse.urlparse, on the part of the URL after the host.           *)
(***************************************************************************)
\* str.split(c, 1): what is before the first c and what is after it.
Cut(s, c) ==
    [head |-> IF Find(s, c) = 0 THEN s ELSE Before(s, Find(s, c)),
     tail |-> IF Find(s, c) = 0 THEN <<>> ELSE After(s, Find(s, c))]

\* urlsplit, once the fragment is cut off: the query starts at the first "?".
urlsplit_query(url, fragment) ==
    [path |-> Cut(url, "?").head, query |-> Cut(url, "?").tail,
     fragment |-> fragment]

\* urlsplit, once tab, carriage return and line feed are removed: the
\* fragment is cut at the first "#", then the query at the first "?".
urlsplit_fragment(url) == urlsplit_query(Cut(url, "#").head, Cut(url, "#").tail)

\* urlsplit: the characters of _UNSAFE_URL_BYTES_TO_REMOVE are removed
\* wherever they are.  (Its lstrip acts on the scheme's end of the URL,
\* which URL_REGEX fixes.)
urlsplit(url) ==
    urlsplit_fragment(SelectSeq(url, LAMBDA c : c \notin {"\t", "\r", "\n"}))

\* _splitparams: the params start at the first ";" of the last path segment.
splitparams_at(path, slash) ==
    IF Find(SubSeq(path, slash + 1, Len(path)), ";") = 0
    THEN [path |-> path, params |-> <<>>]
    ELSE [path |-> SubSeq(path, 1, slash)
                   \o Cut(SubSeq(path, slash + 1, Len(path)), ";").head,
          params |-> Cut(SubSeq(path, slash + 1, Len(path)), ";").tail]

splitparams(path) == splitparams_at(path, RFind(path, "/"))

urlparse_split(sp) ==
    [path |-> splitparams(sp.path).path, params |-> splitparams(sp.path).params,
     query |-> sp.query, fragment |-> sp.fragment]

urlparse(url) == urlparse_split(urlsplit(url))

(***************************************************************************)
(* urllib.parse.unquote with the defaults of parse_qs: "%" and two         *)
(* hexadecimal digits are a byte, and the bytes are decoded as UTF-8,      *)
(* with U+FFFD for what is not UTF-8 (errors="replace").  A character that *)
(* is not written as an escape stays and ends the bytes before it.         *)
(***************************************************************************)
\* A character as it stands in the text, and the byte of an escape.
Literal(c) == [lit |-> TRUE, c |-> c, b |-> 0]

Byte(b) == [lit |-> FALSE, c |-> "", b |-> b]

\* unquote_to_bytes: a "%" that two hexadecimal digits do not follow stays.
RECURSIVE unquote_to_bytes(_)
unquote_to_bytes(s) ==
    IF s = <<>> THEN <<>>
    ELSE IF Head(s) = "%" /\ Len(s) >= 3 /\ s[2] \in HexDigits /\ s[3] \in HexDigits
    THEN <<Byte(16 * digit_value(s[2]) + digit_value(s[3]))>>
         \o unquote_to_bytes(SubSeq(s, 4, Len(s)))
    ELSE <<Literal(Head(s))>> \o unquote_to_bytes(Tail(s))

\* The i-th of u is a byte from lo to hi.
byte_in(u, i, lo, hi) == Len(u) >= i /\ ~u[i].lit /\ u[i].b \in lo..hi

\* The length of the UTF-8 sequence a byte of 128 or more starts, 0 when
\* it starts none.
utf8_len(b) ==
    IF b \in 194..223 THEN 2
    ELSE IF b \in 224..239 THEN 3
    ELSE IF b \in 240..244 THEN 4
    ELSE 0

\* How many bytes at the front of u are the start of a sequence of n bytes:
\* the second byte has a range of its own after E0, ED, F0 and F4.
utf8_valid(u, n) ==
    IF ~byte_in(u, 2, IF u[1].b = 224 THEN 160 ELSE IF u[1].b = 240 THEN 144 ELSE 128,
                IF u[1].b = 237 THEN 159 ELSE IF u[1].b = 244 THEN 143 ELSE 191)
    THEN 1
    ELSE IF n = 2 \/ ~byte_in(u, 3, 128, 191) THEN 2
    ELSE IF n = 3 \/ ~byte_in(u, 4, 128, 191) THEN 3
    ELSE 4

\* The code point of the sequence of n bytes at the front of u.
utf8_code_point(u, n) ==
    IF n = 2 THEN (u[1].b - 192) * 64 + (u[2].b - 128)
    ELSE IF n = 3 THEN (u[1].b - 224) * 4096 + (u[2].b - 128) * 64 + (u[3].b - 128)
    ELSE (u[1].b - 240) * 262144 + (u[2].b - 128) * 4096 + (u[3].b - 128) * 64
         + (u[4].b - 128)

RECURSIVE utf8_decode(_)
\* u starts with a byte of 128 or more: a whole sequence is its character,
\* and what is not one is U+FFFD for as many bytes as could start one.
utf8_decode_seq(u, n, valid) ==
    IF n = 0 THEN <<chr(65533)>> \o utf8_decode(Tail(u))
    ELSE IF valid = n
    THEN <<chr(utf8_code_point(u, n))>> \o utf8_decode(SubSeq(u, n + 1, Len(u)))
    ELSE <<chr(65533)>> \o utf8_decode(SubSeq(u, valid + 1, Len(u)))

\* bytes.decode("utf-8", "replace")
utf8_decode(u) ==
    IF u = <<>> THEN <<>>
    ELSE IF Head(u).lit THEN <<Head(u).c>> \o utf8_decode(Tail(u))
    ELSE IF Head(u).b < 128 THEN <<chr(Head(u).b)>> \o utf8_decode(Tail(u))
    ELSE utf8_decode_seq(u, utf8_len(Head(u).b), utf8_valid(u, utf8_len(Head(u).b)))

\* unquote: a text without "%" is returned as it is.
unquote(s) == IF Find(s, "%") = 0 THEN s ELSE utf8_decode(unquote_to_bytes(s))

(***************************************************************************)
(* urllib.parse.parse_qs with its defaults: fields are split at "&", an    *)
(* empty field, a field without "=" and a field with a blank value are     *)
(* dropped; in the names and values that are kept "+" becomes a space and  *)
(* the escapes are decoded.  The result is the list of (name, value) pairs *)
(* in order; the dictionary the code indexes is read through qs_has and    *)
(* qs_first.                                                               *)
(***************************************************************************)
qs_keep(f) == Len(f) > 0 /\ Find(f, "=") > 0 /\ Len(Cut(f, "=").tail) > 0

\* str.replace('+', ' ')
plus_to_space(s) == [i \in 1..Len(s) |-> IF s[i] = "+" THEN " " ELSE s[i]]

qs_pairs(kept) ==
    [i \in 1..Len(kept) |->
        [name |-> unquote(plus_to_space(Cut(kept[i], "=").head)),
         value |-> unquote(plus_to_space(Cut(kept[i], "=").tail))]]

parse_qs(query) == qs_pairs(SelectSeq(Split(query, "&"), qs_keep))

\* "name" in query
qs_has(q, name) == \E i \in 1..Len(q) : q[i].name = name

\* query[name][0]
qs_first(q, name) ==
    q[CHOOSE i \in 1..Len(q) :
        q[i].name = name /\ \A j \in 1..(i - 1) : q[j].name # name].value

(***************************************************************************)
(* get_map_params.  The result is a reference (map_type, map_id), the      *)
(* value False, or the TypeError that `"&" in map_id` raises when map_id   *)
(* is still None.                                                          *)
(***************************************************************************)
Ref(t, id) == [tag |-> "ref", map_type |-> t, map_id |-> id]

RetFalse == [tag |-> "False", map_type |-> "", map_id |-> <<>>]

RaiseTypeError == [tag |-> "TypeError", map_type |-> "", map_id |-> <<>>]

\* (map_type, map_id) as lines 62, 64, 68 and 70 assign them.
Selected(t, id) == [none |-> FALSE, map_type |-> t, map_id |-> id]

\* (None, None) of line 60.
NoneSelected == [none |-> TRUE, map_type |-> "", map_id |-> <<>>]

select_query_s_first(query) ==
    IF qs_has(query, <<"s">>) THEN Selected("s", qs_first(query, <<"s">>))
    ELSE IF qs_has(query, <<"b">>) THEN Selected("b", qs_first(query, <<"b">>))
    ELSE NoneSelected

\* Lines 66-70: the b parameter is looked at first, then the s parameter.
select_query(query) ==
    IF qs_has(query, <<"b">>) THEN Selected("b", qs_first(query, <<"b">>))
    ELSE IF qs_has(query, <<"s">>) THEN Selected("s", qs_first(query, <<"s">>))
    ELSE NoneSelected

\* Lines 61-70.
select_map(parsed) ==
    IF StartsWith(parsed.path, <<"/", "b", "/">>)
    THEN Selected("b", SubSeq(parsed.path, 4, Len(parsed.path)))
    ELSE IF StartsWith(parsed.path, <<"/", "s", "/">>)
    THEN Selected("s", SubSeq(parsed.path, 4, Len(parsed.path)))
    ELSE IF parsed.path = <<"/", "p", "/", "b", "e", "a", "t", "m", "a", "p">>
    THEN select_query(parse_qs(parsed.query))
    ELSE NoneSelected

\* Lines 71-72: the id ends at its first "&".
cut_amp(map_id) == IF Find(map_id, "&") > 0 THEN Cut(map_id, "&").head ELSE map_id

\* Lines 73-75.
check_map(map_type, map_id) ==
    IF map_type # "" /\ isdigit(map_id) THEN Ref(map_type, map_id) ELSE RetFalse

\* Lines 71-75; `"&" in map_id` raises TypeError when map_id is None.
finish_map(m) ==
    IF m.none THEN RaiseTypeError ELSE check_map(m.map_type, cut_amp(m.map_id))

get_map_params(url) == finish_map(select_map(urlparse(url)))

(***************************************************************************)
(* html.unescape.  A character reference is "&", then "#" and decimal     *)
(* digits, or "#x" and hexadecimal digits, or a name of up to 32           *)
(* characters, and an optional ";" (the regular expression _charref).  A   *)
(* number becomes the character of that code point, the replacement of     *)
(* the table invalid_charrefs, U+FFFD or nothing, and int() raises         *)
(* ValueError for more than 4300 decimal digits.  A name that is in the    *)
(* table html5 is replaced by its characters, else the longest proper      *)
(* prefix of two or more characters that is in the table is, and else the  *)
(* text stays.  The output is not scanned again.  html5 is                 *)
(* html.entities.html5: every name with the code points of its one or two  *)
(* characters.                                                             *)
(***************************************************************************)
html5 ==
    {<<<<"A", "E", "l", "i", "g">>, <<198>>>>,
     <<<<"A", "E", "l", "i", "g", ";">>, <<198>>>>,
     <<<<"A", "M", "P">>, <<38>>>>,
     <<<<"A", "M", "P", ";">>, <<38>>>>,
     <<<<"A", "a", "c", "u", "t", "e">>, <<193>>>>,
     <<<<"A", "a", "c", "u", "t", "e", ";">>, <<193>>>>,
     <<<<"A", "b", "r", "e", "v", "e", ";">>, <<258>>>>,
     <<<<"A", "c", "i", "r", "c">>, <<194>>>>,
     <<<<"A", "c", "i", "r", "c", ";">>, <<194>>>>,
     <<<<"A", "c", "y", ";">>, <<1040>>>>,
     <<<<"A", "f", "r", ";">>, <<120068>>>>,
     <<<<"A", "g", "r", "a", "v", "e">>, <<192>>>>,
     <<<<"A", "g", "r", "a", "v", "e", ";">>, <<192>>>>,
     <<<<"A", "l", "p", "h", "a", ";">>, <<913>>>>,
     <<<<"A", "m", "a", "c", "r", ";">>, <<256>>>>,
     <<<<"A", "n", "d", ";">>, <<10835>>>>,
     <<<<"A", "o", "g", "o", "n", ";">>, <<260>>>>,
     <<<<"A", "o", "p", "f", ";">>, <<120120>>>>,
     <<<<"A", "p", "p", "l", "y", "F", "u", "n", "c", "t", "i", "o", "n", ";">>, <<8289>>>>,
     <<<<"A", "r", "i", "n", "g">>, <<197>>>>,
     <<<<"A", "r", "i", "n", "g", ";">>, <<197>>>>,
     <<<<"A", "s", "c", "r", ";">>, <<119964>>>>,
     <<<<"A", "s", "s", "i", "g", "n", ";">>, <<8788>>>>,
     <<<<"A", "t", "i", "l", "d", "e">>, <<195>>>>,
     <<<<"A", "t", "i", "l", "d", "e", ";">>, <<195>>>>,
     <<<<"A", "u", "m", "l">>, <<196>>>>,
     <<<<"A", "u", "m", "l", ";">>, <<196>>>>,
     <<<<"B", "a", "c", "k", "s", "l", "a", "s", "h", ";">>, <<8726>>>>,
     <<<<"B", "a", "r", "v", ";">>, <<10983>>>>,
     <<<<"B", "a", "r", "w", "e", "d", ";">>, <<8966>>>>,
     <<<<"B", "c", "y", ";">>, <<1041>>>>,
     <<<<"B", "e", "c", "a", "u", "s", "e", ";">>, <<8757>>>>,
     <<<<"B", "e", "r", "n", "o", "u", "l", "l", "i", "s", ";">>, <<8492>>>>,
     <<<<"B", "e", "t", "a", ";">>, <<914>>>>,
     <<<<"B", "f", "r", ";">>, <<120069>>>>,
     <<<<"B", "o", "p", "f", ";">>, <<120121>>>>,
     <<<<"B", "r", "e", "v", "e", ";">>, <<728>>>>,
     <<<<"B", "s", "c", "r", ";">>, <<8492>>>>,
     <<<<"B", "u", "m", "p", "e", "q", ";">>, <<8782>>>>,
     <<<<"C", "H", "c", "y", ";">>, <<1063>>>>,
     <<<<"C", "O", "P", "Y">>, <<169>>>>,
     <<<<"C", "O", "P", "Y", ";">>, <<169>>>>,
     <<<<"C", "a", "c", "u", "t", "e", ";">>, <<262>>>>,
     <<<<"C", "a", "p", ";">>, <<8914>>>>,
     <<<<"C", "a", "p", "i", "t", "a", "l", "D", "i", "f", "f", "e", "r", "e", "n", "t", "i", "a", "l", "D", ";">>, <<8517>>>>,
     <<<<"C", "a", "y", "l", "e", "y", "s", ";">>, <<8493>>>>,
     <<<<"C", "c", "a", "r", "o", "n", ";">>, <<268>>>>,
     <<<<"C", "c", "e", "d", "i", "l">>, <<199>>>>,
     <<<<"C", "c", "e", "d", "i", "l", ";">>, <<199>>>>,
     <<<<"C", "c", "i", "r", "c", ";">>, <<264>>>>,
     <<<<"C", "c", "o", "n", "i", "n", "t", ";">>, <<8752>>>>,
     <<<<"C", "d", "o", "t", ";">>, <<266>>>>,
     <<<<"C", "e", "d", "i", "l", "l", "a", ";">>, <<184>>>>,
     <<<<"C", "e", "n", "t", "e", "r", "D", "o", "t", ";">>, <<183>>>>,
     <<<<"C", "f", "r", ";">>, <<8493>>>>,
     <<<<"C", "h", "i", ";">>, <<935>>>>,
     <<<<"C", "i", "r", "c", "l", "e", "D", "o", "t", ";">>, <<8857>>>>,
     <<<<"C", "i", "r", "c", "l", "e", "M", "i", "n", "u", "s", ";">>, <<8854>>>>,
     <<<<"C", "i", "r", "c", "l", "e", "P", "l", "u", "s", ";">>, <<8853>>>>,
     <<<<"C", "i", "r", "c", "l", "e", "T", "i", "m", "e", "s", ";">>, <<8855>>>>,
     <<<<"C", "l", "o", "c", "k", "w", "i", "s", "e", "C", "o", "n", "t", "o", "u", "r", "I", "n", "t", "e", "g", "r", "a", "l", ";">>, <<8754>>>>,
     <<<<"C", "l", "o", "s", "e", "C", "u", "r", "l", "y", "D", "o", "u", "b", "l", "e", "Q", "u", "o", "t", "e", ";">>, <<8221>>>>,
     <<<<"C", "l", "o", "s", "e", "C", "u", "r", "l", "y", "Q", "u", "o", "t", "e", ";">>, <<8217>>>>,
     <<<<"C", "o", "l", "o", "n", ";">>, <<8759>>>>,
     <<<<"C", "o", "l", "o", "n", "e", ";">>, <<10868>>>>,
     <<<<"C", "o", "n", "g", "r", "u", "e", "n", "t", ";">>, <<8801>>>>,
     <<<<"C", "o", "n", "i", "n", "t", ";">>, <<8751>>>>,
     <<<<"C", "o", "n", "t", "o", "u", "r", "I", "n", "t", "e", "g", "r", "a", "l", ";">>, <<8750>>>>,
     <<<<"C", "o", "p", "f", ";">>, <<8450>>>>,
     <<<<"C", "o", "p", "r", "o", "d", "u", "c", "t", ";">>, <<8720>>>>,
     <<<<"C", "o", "u", "n", "t", "e", "r", "C", "l", "o", "c", "k", "w", "i", "s", "e", "C", "o", "n", "t", "o", "u", "r", "I", "n", "t", "e", "g", "r", "a", "l", ";">>, <<8755>>>>,
     <<<<"C", "r", "o", "s", "s", ";">>, <<10799>>>>,
     <<<<"C", "s", "c", "r", ";">>, <<119966>>>>,
     <<<<"C", "u", "p", ";">>, <<8915>>>>,
     <<<<"C", "u", "p", "C", "a", "p", ";">>, <<8781>>>>,
     <<<<"D", "D", ";">>, <<8517>>>>,
     <<<<"D", "D", "o", "t", "r", "a", "h", "d", ";">>, <<10513>>>>,
     <<<<"D", "J", "c", "y", ";">>, <<1026>>>>,
     <<<<"D", "S", "c", "y", ";">>, <<1029>>>>,
     <<<<"D", "Z", "c", "y", ";">>, <<1039>>>>,
     <<<<"D", "a", "g", "g", "e", "r", ";">>, <<8225>>>>,
     <<<<"D", "a", "r", "r", ";">>, <<8609>>>>,
     <<<<"D", "a", "s", "h", "v", ";">>, <<10980>>>>,
     <<<<"D", "c", "a", "r", "o", "n", ";">>, <<270>>>>,
     <<<<"D", "c", "y", ";">>, <<1044>>>>,
     <<<<"D", "e", "l", ";">>, <<8711>>>>,
     <<<<"D", "e", "l", "t", "a", ";">>, <<916>>>>,
     <<<<"D", "f", "r", ";">>, <<120071>>>>,
     <<<<"D", "i", "a", "c", "r", "i", "t", "i", "c", "a", "l", "A", "c", "u", "t", "e", ";">>, <<180>>>>,
     <<<<"D", "i", "a", "c", "r", "i", "t", "i", "c", "a", "l", "D", "o", "t", ";">>, <<729>>>>,
     <<<<"D", "i", "a", "c", "r", "i", "t", "i", "c", "a", "l", "D", "o", "u", "b", "l", "e", "A", "c", "u", "t", "e", ";">>, <<733>>>>,
     <<<<"D", "i", "a", "c", "r", "i", "t", "i", "c", "a", "l", "G", "r", "a", "v", "e", ";">>, <<96>>>>,
     <<<<"D", "i", "a", "c", "r", "i", "t", "i", "c", "a", "l", "T", "i", "l", "d", "e", ";">>, <<732>>>>,
     <<<<"D", "i", "a", "m", "o", "n", "d", ";">>, <<8900>>>>,
     <<<<"D", "i", "f", "f", "e", "r", "e", "n", "t", "i", "a", "l", "D", ";">>, <<8518>>>>,
     <<<<"D", "o", "p", "f", ";">>, <<120123>>>>,
     <<<<"D", "o", "t", ";">>, <<168>>>>,
     <<<<"D", "o", "t", "D", "o", "t", ";">>, <<8412>>>>,
     <<<<"D", "o", "t", "E", "q", "u", "a", "l", ";">>, <<8784>>>>,
     <<<<"D", "o", "u", "b", "l", "e", "C", "o", "n", "t", "o", "u", "r", "I", "n", "t", "e", "g", "r", "a", "l", ";">>, <<8751>>>>,
     <<<<"D", "o", "u", "b", "l", "e", "D", "o", "t", ";">>, <<168>>>>,
     <<<<"D", "o", "u", "b", "l", "e", "D", "o", "w", "n", "A", "r", "r", "o", "w", ";">>, <<8659>>>>,
     <<<<"D", "o", "u", "b", "l", "e", "L", "e", "f", "t", "A", "r", "r", "o", "w", ";">>, <<8656>>>>,
     <<<<"D", "o", "u", "b", "l", "e", "L", "e", "f", "t", "R", "i", "g", "h", "t", "A", "r", "r", "o", "w", ";">>, <<8660>>>>,
     <<<<"D", "o", "u", "b", "l", "e", "L", "e", "f", "t", "T", "e", "e", ";">>, <<10980>>>>,
     <<<<"D", "o", "u", "b", "l", "e", "L", "o", "n", "g", "L", "e", "f", "t", "A", "r", "r", "o", "w", ";">>, <<10232>>>>,
     <<<<"D", "o", "u", "b", "l", "e", "L", "o", "n", "g", "L", "e", "f", "t", "R", "i", "g", "h", "t", "A", "r", "r", "o", "w", ";">>, <<10234>>>>,
     <<<<"D", "o", "u", "b", "l", "e", "L", "o", "n", "g", "R", "i", "g", "h", "t", "A", "r", "r", "o", "w", ";">>, <<10233>>>>,
     <<<<"D", "o", "u", "b", "l", "e", "R", "i", "g", "h", "t", "A", "r", "r", "o", "w", ";">>, <<8658>>>>,
     <<<<"D", "o", "u", "b", "l", "e", "R", "i", "g", "h", "t", "T", "e", "e", ";">>, <<8872>>>>,
     <<<<"D", "o", "u", "b", "l", "e", "U", "p", "A", "r", "r", "o", "w", ";">>, <<8657>>>>,
     <<<<"D", "o", "u", "b", "l", "e", "U", "p", "D", "o", "w", "n", "A", "r", "r", "o", "w", ";">>, <<8661>>>>,
     <<<<"D", "o", "u", "b", "l", "e", "V", "e", "r", "t", "i", "c", "a", "l", "B", "a", "r", ";">>, <<8741>>>>,
     <<<<"D", "o", "w", "n", "A", "r", "r", "o", "w", ";">>, <<8595>>>>,
     <<<<"D", "o", "w", "n", "A", "r", "r", "o", "w", "B", "a", "r", ";">>, <<10515>>>>,
     <<<<"D", "o", "w", "n", "A", "r", "r", "o", "w", "U", "p", "A", "r", "r", "o", "w", ";">>, <<8693>>>>,
     <<<<"D", "o", "w", "n", "B", "r", "e", "v", "e", ";">>, <<785>>>>,
     <<<<"D", "o", "w", "n", "L", "e", "f", "t", "R", "i", "g", "h", "t", "V", "e", "c", "t", "o", "r", ";">>, <<10576>>>>,
     <<<<"D", "o", "w", "n", "L", "e", "f", "t", "T", "e", "e", "V", "e", "c", "t", "o", "r", ";">>, <<10590>>>>,
     <<<<"D", "o", "w", "n", "L", "e", "f", "t", "V", "e", "c", "t", "o", "r", ";">>, <<8637>>>>,
     <<<<"D", "o", "w", "n", "L", "e", "f", "t", "V", "e", "c", "t", "o", "r", "B", "a", "r", ";">>, <<10582>>>>,
     <<<<"D", "o", "w", "n", "R", "i", "g", "h", "t", "T", "e", "e", "V", "e", "c", "t", "o", "r", ";">>, <<10591>>>>,
     <<<<"D", "o", "w", "n", "R", "i", "g", "h", "t", "V", "e", "c", "t", "o", "r", ";">>, <<8641>>>>,
     <<<<"D", "o", "w", "n", "R", "i", "g", "h", "t", "V", "e", "c", "t", "o", "r", "B", "a", "r", ";">>, <<10583>>>>,
     <<<<"D", "o", "w", "n", "T", "e", "e", ";">>, <<8868>>>>,
     <<<<"D", "o", "w", "n", "T", "e", "e", "A", "r", "r", "o", "w", ";">>, <<8615>>>>,
     <<<<"D", "o", "w", "n", "a", "r", "r", "o", "w", ";">>, <<8659>>>>,
     <<<<"D", "s", "c", "r", ";">>, <<119967>>>>,
     <<<<"D", "s", "t", "r", "o", "k", ";">>, <<272>>>>,
     <<<<"E", "N", "G", ";">>, <<330>>>>,
     <<<<"E", "T", "H">>, <<208>>>>,
     <<<<"E", "T", "H", ";">>, <<208>>>>,
     <<<<"E", "a", "c", "u", "t", "e">>, <<201>>>>,
     <<<<"E", "a", "c", "u", "t", "e", ";">>, <<201>>>>,
     <<<<"E", "c", "a", "r", "o", "n", ";">>, <<282>>>>,
     <<<<"E", "c", "i", "r", "c">>, <<202>>>>,
     <<<<"E", "c", "i", "r", "c", ";">>, <<202>>>>,
     <<<<"E", "c", "y", ";">>, <<1069>>>>,
     <<<<"E", "d", "o", "t", ";">>, <<278>>>>,
     <<<<"E", "f", "r", ";">>, <<120072>>>>,
     <<<<"E", "g", "r", "a", "v", "e">>, <<200>>>>,
     <<<<"E", "g", "r", "a", "v", "e", ";">>, <<200>>>>,
     <<<<"E", "l", "e", "m", "e", "n", "t", ";">>, <<8712>>>>,
     <<<<"E", "m", "a", "c", "r", ";">>, <<274>>>>,
     <<<<"E", "m", "p", "t", "y", "S", "m", "a", "l", "l", "S", "q", "u", "a", "r", "e", ";">>, <<9723>>>>,
     <<<<"E", "m", "p", "t", "y", "V", "e", "r", "y", "S", "m", "a", "l", "l", "S", "q", "u", "a", "r", "e", ";">>, <<9643>>>>,
     <<<<"E", "o", "g", "o", "n", ";">>, <<280>>>>,
     <<<<"E", "o", "p", "f", ";">>, <<120124>>>>,
     <<<<"E", "p", "s", "i", "l", "o", "n", ";">>, <<917>>>>,
     <<<<"E", "q", "u", "a", "l", ";">>, <<10869>>>>,
     <<<<"E", "q", "u", "a", "l", "T", "i", "l", "d", "e", ";">>, <<8770>>>>,
     <<<<"E", "q", "u", "i", "l", "i", "b", "r", "i", "u", "m", ";">>, <<8652>>>>,
     <<<<"E", "s", "c", "r", ";">>, <<8496>>>>,
     <<<<"E", "s", "i", "m", ";">>, <<10867>>>>,
     <<<<"E", "t", "a", ";">>, <<919>>>>,
     <<<<"E", "u", "m", "l">>, <<203>>>>,
     <<<<"E", "u", "m", "l", ";">>, <<203>>>>,
     <<<<"E", "x", "i", "s", "t", "s", ";">>, <<8707>>>>,
     <<<<"E", "x", "p", "o", "n", "e", "n", "t", "i", "a", "l", "E", ";">>, <<8519>>>>,
     <<<<"F", "c", "y", ";">>, <<1060>>>>,
     <<<<"F", "f", "r", ";">>, <<120073>>>>,
     <<<<"F", "i", "l", "l", "e", "d", "S", "m", "a", "l", "l", "S", "q", "u", "a", "r", "e", ";">>, <<9724>>>>,
     <<<<"F", "i", "l", "l", "e", "d", "V", "e", "r", "y", "S", "m", "a", "l", "l", "S", "q", "u", "a", "r", "e", ";">>, <<9642>>>>,
     <<<<"F", "o", "p", "f", ";">>, <<120125>>>>,
     <<<<"F", "o", "r", "A", "l", "l", ";">>, <<8704>>>>,
     <<<<"F", "o", "u", "r", "i", "e", "r", "t", "r", "f", ";">>, <<8497>>>>,
     <<<<"F", "s", "c", "r", ";">>, <<8497>>>>,
     <<<<"G", "J", "c", "y", ";">>, <<1027>>>>,
     <<<<"G", "T">>, <<62>>>>,
     <<<<"G", "T", ";">>, <<62>>>>,
     <<<<"G", "a", "m", "m", "a", ";">>, <<915>>>>,
     <<<<"G", "a", "m", "m", "a", "d", ";">>, <<988>>>>,
     <<<<"G", "b", "r", "e", "v", "e", ";">>, <<286>>>>,
     <<<<"G", "c", "e", "d", "i", "l", ";">>, <<290>>>>,
     <<<<"G", "c", "i", "r", "c", ";">>, <<284>>>>,
     <<<<"G", "c", "y", ";">>, <<1043>>>>,
     <<<<"G", "d", "o", "t", ";">>, <<288>>>>,
     <<<<"G", "f", "r", ";">>, <<120074>>>>,
     <<<<"G", "g", ";">>, <<8921>>>>,
     <<<<"G", "o", "p", "f", ";">>, <<120126>>>>,
     <<<<"G", "r", "e", "a", "t", "e", "r", "E", "q", "u", "a", "l", ";">>, <<8805>>>>,
     <<<<"G", "r", "e", "a", "t", "e", "r", "E", "q", "u", "a", "l", "L", "e", "s", "s", ";">>, <<8923>>>>,
     <<<<"G", "r", "e", "a", "t", "e", "r", "F", "u", "l", "l", "E", "q", "u", "a", "l", ";">>, <<8807>>>>,
     <<<<"G", "r", "e", "a", "t", "e", "r", "G", "r", "e", "a", "t", "e", "r", ";">>, <<10914>>>>,
     <<<<"G", "r", "e", "a", "t", "e", "r", "L", "e", "s", "s", ";">>, <<8823>>>>,
     <<<<"G", "r", "e", "a", "t", "e", "r", "S", "l", "a", "n", "t", "E", "q", "u", "a", "l", ";">>, <<10878>>>>,
     <<<<"G", "r", "e", "a", "t", "e", "r", "T", "i", "l", "d", "e", ";">>, <<8819>>>>,
     <<<<"G", "s", "c", "r", ";">>, <<119970>>>>,
     <<<<"G", "t", ";">>, <<8811>>>>,
     <<<<"H", "A", "R", "D", "c", "y", ";">>, <<1066>>>>,
     <<<<"H", "a", "c", "e", "k", ";">>, <<711>>>>,
     <<<<"H", "a", "t", ";">>, <<94>>>>,
     <<<<"H", "c", "i", "r", "c", ";">>, <<292>>>>,
     <<<<"H", "f", "r", ";">>, <<8460>>>>,
     <<<<"H", "i", "l", "b", "e", "r", "t", "S", "p", "a", "c", "e", ";">>, <<8459>>>>,
     <<<<"H", "o", "p", "f", ";">>, <<8461>>>>,
     <<<<"H", "o", "r", "i", "z", "o", "n", "t", "a", "l", "L", "i", "n", "e", ";">>, <<9472>>>>,
     <<<<"H", "s", "c", "r", ";">>, <<8459>>>>,
     <<<<"H", "s", "t", "r", "o", "k", ";">>, <<294>>>>,
     <<<<"H", "u", "m", "p", "D", "o", "w", "n", "H", "u", "m", "p", ";">>, <<8782>>>>,
     <<<<"H", "u", "m", "p", "E", "q", "u", "a", "l", ";">>, <<8783>>>>,
     <<<<"I", "E", "c", "y", ";">>, <<1045>>>>,
     <<<<"I", "J", "l", "i", "g", ";">>, <<306>>>>,
     <<<<"I", "O", "c", "y", ";">>, <<1025>>>>,
     <<<<"I", "a", "c", "u", "t", "e">>, <<205>>>>,
     <<<<"I", "a", "c", "u", "t", "e", ";">>, <<205>>>>,
     <<<<"I", "c", "i", "r", "c">>, <<206>>>>,
     <<<<"I", "c", "i", "r", "c", ";">>, <<206>>>>,
     <<<<"I", "c", "y", ";">>, <<1048>>>>,
     <<<<"I", "d", "o", "t", ";">>, <<304>>>>,
     <<<<"I", "f", "r", ";">>, <<8465>>>>,
     <<<<"I", "g", "r", "a", "v", "e">>, <<204>>>>,
     <<<<"I", "g", "r", "a", "v", "e", ";">>, <<204>>>>,
     <<<<"I", "m", ";">>, <<8465>>>>,
     <<<<"I", "m", "a", "c", "r", ";">>, <<298>>>>,
     <<<<"I", "m", "a", "g", "i", "n", "a", "r", "y", "I", ";">>, <<8520>>>>,
     <<<<"I", "m", "p", "l", "i", "e", "s", ";">>, <<8658>>>>,
     <<<<"I", "n", "t", ";">>, <<8748>>>>,
     <<<<"I", "n", "t", "e", "g", "r", "a", "l", ";">>, <<8747>>>>,
     <<<<"I", "n", "t", "e", "r", "s", "e", "c", "t", "i", "o", "n", ";">>, <<8898>>>>,
     <<<<"I", "n", "v", "i", "s", "i", "b", "l", "e", "C", "o", "m", "m", "a", ";">>, <<8291>>>>,
     <<<<"I", "n", "v", "i", "s", "i", "b", "l", "e", "T", "i", "m", "e", "s", ";">>, <<8290>>>>,
     <<<<"I", "o", "g", "o", "n", ";">>, <<302>>>>,
     <<<<"I", "o", "p", "f", ";">>, <<120128>>>>,
     <<<<"I", "o", "t", "a", ";">>, <<921>>>>,
     <<<<"I", "s", "c", "r", ";">>, <<8464>>>>,
     <<<<"I", "t", "i", "l", "d", "e", ";">>, <<296>>>>,
     <<<<"I", "u", "k", "c", "y", ";">>, <<1030>>>>,
     <<<<"I", "u", "m", "l">>, <<207>>>>,
     <<<<"I", "u", "m", "l", ";">>, <<207>>>>,
     <<<<"J", "c", "i", "r", "c", ";">>, <<308>>>>,
     <<<<"J", "c", "y", ";">>, <<1049>>>>,
     <<<<"J", "f", "r", ";">>, <<120077>>>>,
     <<<<"J", "o", "p", "f", ";">>, <<120129>>>>,
     <<<<"J", "s", "c", "r", ";">>, <<119973>>>>,
     <<<<"J", "s", "e", "r", "c", "y", ";">>, <<1032>>>>,
     <<<<"J", "u", "k", "c", "y", ";">>, <<1028>>>>,
     <<<<"K", "H", "c", "y", ";">>, <<1061>>>>,
     <<<<"K", "J", "c", "y", ";">>, <<1036>>>>,
     <<<<"K", "a", "p", "p", "a", ";">>, <<922>>>>,
     <<<<"K", "c", "e", "d", "i", "l", ";">>, <<310>>>>,
     <<<<"K", "c", "y", ";">>, <<1050>>>>,
     <<<<"K", "f", "r", ";">>, <<120078>>>>,
     <<<<"K", "o", "p", "f", ";">>, <<120130>>>>,
     <<<<"K", "s", "c", "r", ";">>, <<119974>>>>,
     <<<<"L", "J", "c", "y", ";">>, <<1033>>>>,
     <<<<"L", "T">>, <<60>>>>,
     <<<<"L", "T", ";">>, <<60>>>>,
     <<<<"L", "a", "c", "u", "t", "e", ";">>, <<313>>>>,
     <<<<"L", "a", "m", "b", "d", "a", ";">>, <<923>>>>,
     <<<<"L", "a", "n", "g", ";">>, <<10218>>>>,
     <<<<"L", "a", "p", "l", "a", "c", "e", "t", "r", "f", ";">>, <<8466>>>>,
     <<<<"L", "a", "r", "r", ";">>, <<8606>>>>,
     <<<<"L", "c", "a", "r", "o", "n", ";">>, <<317>>>>,
     <<<<"L", "c", "e", "d", "i", "l", ";">>, <<315>>>>,
     <<<<"L", "c", "y", ";">>, <<1051>>>>,
     <<<<"L", "e", "f", "t", "A", "n", "g", "l", "e", "B", "r", "a", "c", "k", "e", "t", ";">>, <<10216>>>>,
     <<<<"L", "e", "f", "t", "A", "r", "r", "o", "w", ";">>, <<8592>>>>,
     <<<<"L", "e", "f", "t", "A", "r", "r", "o", "w", "B", "a", "r", ";">>, <<8676>>>>,
     <<<<"L", "e", "f", "t", "A", "r", "r", "o", "w", "R", "i", "g", "h", "t", "A", "r", "r", "o", "w", ";">>, <<8646>>>>,
     <<<<"L", "e", "f", "t", "C", "e", "i", "l", "i", "n", "g", ";">>, <<8968>>>>,
     <<<<"L", "e", "f", "t", "D", "o", "u", "b", "l", "e", "B", "r", "a", "c", "k", "e", "t", ";">>, <<10214>>>>,
     <<<<"L", "e", "f", "t", "D", "o", "w", "n", "T", "e", "e", "V", "e", "c", "t", "o", "r", ";">>, <<10593>>>>,
     <<<<"L", "e", "f", "t", "D", "o", "w", "n", "V", "e", "c", "t", "o", "r", ";">>, <<8643>>>>,
     <<<<"L", "e", "f", "t", "D", "o", "w", "n", "V", "e", "c", "t", "o", "r", "B", "a", "r", ";">>, <<10585>>>>,
     <<<<"L", "e", "f", "t", "F", "l", "o", "o", "r", ";">>, <<8970>>>>,
     <<<<"L", "e", "f", "t", "R", "i", "g", "h", "t", "A", "r", "r", "o", "w", ";">>, <<8596>>>>,
     <<<<"L", "e", "f", "t", "R", "i", "g", "h", "t", "V", "e", "c", "t", "o", "r", ";">>, <<10574>>>>,
     <<<<"L", "e", "f", "t", "T", "e", "e", ";">>, <<8867>>>>,
     <<<<"L", "e", "f", "t", "T", "e", "e", "A", "r", "r", "o", "w", ";">>, <<8612>>>>,
     <<<<"L", "e", "f", "t", "T", "e", "e", "V", "e", "c", "t", "o", "r", ";">>, <<10586>>>>,
     <<<<"L", "e", "f", "t", "T", "r", "i", "a", "n", "g", "l", "e", ";">>, <<8882>>>>,
     <<<<"L", "e", "f", "t", "T", "r", "i", "a", "n", "g", "l", "e", "B", "a", "r", ";">>, <<10703>>>>,
     <<<<"L", "e", "f", "t", "T", "r", "i", "a", "n", "g", "l", "e", "E", "q", "u", "a", "l", ";">>, <<8884>>>>,
     <<<<"L", "e", "f", "t", "U", "p", "D", "o", "w", "n", "V", "e", "c", "t", "o", "r", ";">>, <<10577>>>>,
     <<<<"L", "e", "f", "t", "U", "p", "T", "e", "e", "V", "e", "c", "t", "o", "r", ";">>, <<10592>>>>,
     <<<<"L", "e", "f", "t", "U", "p", "V", "e", "c", "t", "o", "r", ";">>, <<8639>>>>,
     <<<<"L", "e", "f", "t", "U", "p", "V", "e", "c", "t", "o", "r", "B", "a", "r", ";">>, <<10584>>>>,
     <<<<"L", "e", "f", "t", "V", "e", "c", "t", "o", "r", ";">>, <<8636>>>>,
     <<<<"L", "e", "f", "t", "V", "e", "c", "t", "o", "r", "B", "a", "r", ";">>, <<10578>>>>,
     <<<<"L", "e", "f", "t", "a", "r", "r", "o", "w", ";">>, <<8656>>>>,
     <<<<"L", "e", "f", "t", "r", "i", "g", "h", "t", "a", "r", "r", "o", "w", ";">>, <<8660>>>>,
     <<<<"L", "e", "s", "s", "E", "q", "u", "a", "l", "G", "r", "e", "a", "t", "e", "r", ";">>, <<8922>>>>,
     <<<<"L", "e", "s", "s", "F", "u", "l", "l", "E", "q", "u", "a", "l", ";">>, <<8806>>>>,
     <<<<"L", "e", "s", "s", "G", "r", "e", "a", "t", "e", "r", ";">>, <<8822>>>>,
     <<<<"L", "e", "s", "s", "L", "e", "s", "s", ";">>, <<10913>>>>,
     <<<<"L", "e", "s", "s", "S", "l", "a", "n", "t", "E", "q", "u", "a", "l", ";">>, <<10877>>>>,
     <<<<"L", "e", "s", "s", "T", "i", "l", "d", "e", ";">>, <<8818>>>>,
     <<<<"L", "f", "r", ";">>, <<120079>>>>,
     <<<<"L", "l", ";">>, <<8920>>>>,
     <<<<"L", "l", "e", "f", "t", "a", "r", "r", "o", "w", ";">>, <<8666>>>>,
     <<<<"L", "m", "i", "d", "o", "t", ";">>, <<319>>>>,
     <<<<"L", "o", "n", "g", "L", "e", "f", "t", "A", "r", "r", "o", "w", ";">>, <<10229>>>>,
     <<<<"L", "o", "n", "g", "L", "e", "f", "t", "R", "i", "g", "h", "t", "A", "r", "r", "o", "w", ";">>, <<10231>>>>,
     <<<<"L", "o", "n", "g", "R", "i", "g", "h", "t", "A", "r", "r", "o", "w", ";">>, <<10230>>>>,
     <<<<"L", "o", "n", "g", "l", "e", "f", "t", "a", "r", "r", "o", "w", ";">>, <<10232>>>>,
     <<<<"L", "o", "n", "g", "l", "e", "f", "t", "r", "i", "g", "h", "t", "a", "r", "r", "o", "w", ";">>, <<10234>>>>,
     <<<<"L", "o", "n", "g", "r", "i", "g", "h", "t", "a", "r", "r", "o", "w", ";">>, <<10233>>>>,
     <<<<"L", "o", "p", "f", ";">>, <<120131>>>>,
     <<<<"L", "o", "w", "e", "r", "L", "e", "f", "t", "A", "r", "r", "o", "w", ";">>, <<8601>>>>,
     <<<<"L", "o", "w", "e", "r", "R", "i", "g", "h", "t", "A", "r", "r", "o", "w", ";">>, <<8600>>>>,
     <<<<"L", "s", "c", "r", ";">>, <<8466>>>>,
     <<<<"L", "s", "h", ";">>, <<8624>>>>,
     <<<<"L", "s", "t", "r", "o", "k", ";">>, <<321>>>>,
     <<<<"L", "t", ";">>, <<8810>>>>,
     <<<<"M", "a", "p", ";">>, <<10501>>>>,
     <<<<"M", "c", "y", ";">>, <<1052>>>>,
     <<<<"M", "e", "d", "i", "u", "m", "S", "p", "a", "c", "e", ";">>, <<8287>>>>,
     <<<<"M", "e", "l", "l", "i", "n", "t", "r", "f", ";">>, <<8499>>>>,
     <<<<"M", "f", "r", ";">>, <<120080>>>>,
     <<<<"M", "i", "n", "u", "s", "P", "l", "u", "s", ";">>, <<8723>>>>,
     <<<<"M", "o", "p", "f", ";">>, <<120132>>>>,
     <<<<"M", "s", "c", "r", ";">>, <<8499>>>>,
     <<<<"M", "u", ";">>, <<924>>>>,
     <<<<"N", "J", "c", "y", ";">>, <<1034>>>>,
     <<<<"N", "a", "c", "u", "t", "e", ";">>, <<323>>>>,
     <<<<"N", "c", "a", "r", "o", "n", ";">>, <<327>>>>,
     <<<<"N", "c", "e", "d", "i", "l", ";">>, <<325>>>>,
     <<<<"N", "c", "y", ";">>, <<1053>>>>,
     <<<<"N", "e", "g", "a", "t", "i", "v", "e", "M", "e", "d", "i", "u", "m", "S", "p", "a", "c", "e", ";">>, <<8203>>>>,
     <<<<"N", "e", "g", "a", "t", "i", "v", "e", "T", "h", "i", "c", "k", "S", "p", "a", "c", "e", ";">>, <<8203>>>>,
     <<<<"N", "e", "g", "a", "t", "i", "v", "e", "T", "h", "i", "n", "S", "p", "a", "c", "e", ";">>, <<8203>>>>,
     <<<<"N", "e", "g", "a", "t", "i", "v", "e", "V", "e", "r", "y", "T", "h", "i", "n", "S", "p", "a", "c", "e", ";">>, <<8203>>>>,
     <<<<"N", "e", "s", "t", "e", "d", "G", "r", "e", "a", "t", "e", "r", "G", "r", "e", "a", "t", "e", "r", ";">>, <<8811>>>>,
     <<<<"N", "e", "s", "t", "e", "d", "L", "e", "s", "s", "L", "e", "s", "s", ";">>, <<8810>>>>,
     <<<<"N", "e", "w", "L", "i", "n", "e", ";">>, <<10>>>>,
     <<<<"N", "f", "r", ";">>, <<120081>>>>,
     <<<<"N", "o", "B", "r", "e", "a", "k", ";">>, <<8288>>>>,
     <<<<"N", "o", "n", "B", "r", "e", "a", "k", "i", "n", "g", "S", "p", "a", "c", "e", ";">>, <<160>>>>,
     <<<<"N", "o", "p", "f", ";">>, <<8469>>>>,
     <<<<"N", "o", "t", ";">>, <<10988>>>>,
     <<<<"N", "o", "t", "C", "o", "n", "g", "r", "u", "e", "n", "t", ";">>, <<8802>>>>,
     <<<<"N", "o", "t", "C", "u", "p", "C", "a", "p", ";">>, <<8813>>>>,
     <<<<"N", "o", "t", "D", "o", "u", "b", "l", "e", "V", "e", "r", "t", "i", "c", "a", "l", "B", "a", "r", ";">>, <<8742>>>>,
     <<<<"N", "o", "t", "E", "l", "e", "m", "e", "n", "t", ";">>, <<8713>>>>,
     <<<<"N", "o", "t", "E", "q", "u", "a", "l", ";">>, <<8800>>>>,
     <<<<"N", "o", "t", "E", "q", "u", "a", "l", "T", "i", "l", "d", "e", ";">>, <<8770, 824>>>>,
     <<<<"N", "o", "t", "E", "x", "i", "s", "t", "s", ";">>, <<8708>>>>,
     <<<<"N", "o", "t", "G", "r", "e", "a", "t", "e", "r", ";">>, <<8815>>>>,
     <<<<"N", "o", "t", "G", "r", "e", "a", "t", "e", "r", "E", "q", "u", "a", "l", ";">>, <<8817>>>>,
     <<<<"N", "o", "t", "G", "r", "e", "a", "t", "e", "r", "F", "u", "l", "l", "E", "q", "u", "a", "l", ";">>, <<8807, 824>>>>,
     <<<<"N", "o", "t", "G", "r", "e", "a", "t", "e", "r", "G", "r", "e", "a", "t", "e", "r", ";">>, <<8811, 824>>>>,
     <<<<"N", "o", "t", "G", "r", "e", "a", "t", "e", "r", "L", "e", "s", "s", ";">>, <<8825>>>>,
     <<<<"N", "o", "t", "G", "r", "e", "a", "t", "e", "r", "S", "l", "a", "n", "t", "E", "q", "u", "a", "l", ";">>, <<10878, 824>>>>,
     <<<<"N", "o", "t", "G", "r", "e", "a", "t", "e", "r", "T", "i", "l", "d", "e", ";">>, <<8821>>>>,
     <<<<"N", "o", "t", "H", "u", "m", "p", "D", "o", "w", "n", "H", "u", "m", "p", ";">>, <<8782, 824>>>>,
     <<<<"N", "o", "t", "H", "u", "m", "p", "E", "q", "u", "a", "l", ";">>, <<8783, 824>>>>,
     <<<<"N", "o", "t", "L", "e", "f", "t", "T", "r", "i", "a", "n", "g", "l", "e", ";">>, <<8938>>>>,
     <<<<"N", "o", "t", "L", "e", "f", "t", "T", "r", "i", "a", "n", "g", "l", "e", "B", "a", "r", ";">>, <<10703, 824>>>>,
     <<<<"N", "o", "t", "L", "e", "f", "t", "T", "r", "i", "a", "n", "g", "l", "e", "E", "q", "u", "a", "l", ";">>, <<8940>>>>,
     <<<<"N", "o", "t", "L", "e", "s", "s", ";">>, <<8814>>>>,
     <<<<"N", "o", "t", "L", "e", "s", "s", "E", "q", "u", "a", "l", ";">>, <<8816>>>>,
     <<<<"N", "o", "t", "L", "e", "s", "s", "G", "r", "e", "a", "t", "e", "r", ";">>, <<8824>>>>,
     <<<<"N", "o", "t", "L", "e", "s", "s", "L", "e", "s", "s", ";">>, <<8810, 824>>>>,
     <<<<"N", "o", "t", "L", "e", "s", "s", "S", "l", "a", "n", "t", "E", "q", "u", "a", "l", ";">>, <<10877, 824>>>>,
     <<<<"N", "o", "t", "L", "e", "s", "s", "T", "i", "l", "d", "e", ";">>, <<8820>>>>,
     <<<<"N", "o", "t", "N", "e", "s", "t", "e", "d", "G", "r", "e", "a", "t", "e", "r", "G", "r", "e", "a", "t", "e", "r", ";">>, <<10914, 824>>>>,
     <<<<"N", "o", "t", "N", "e", "s", "t", "e", "d", "L", "e", "s", "s", "L", "e", "s", "s", ";">>, <<10913, 824>>>>,
     <<<<"N", "o", "t", "P", "r", "e", "c", "e", "d", "e", "s", ";">>, <<8832>>>>,
     <<<<"N", "o", "t", "P", "r", "e", "c", "e", "d", "e", "s", "E", "q", "u", "a", "l", ";">>, <<10927, 824>>>>,
     <<<<"N", "o", "t", "P", "r", "e", "c", "e", "d", "e", "s", "S", "l", "a", "n", "t", "E", "q", "u", "a", "l", ";">>, <<8928>>>>,
     <<<<"N", "o", "t", "R", "e", "v", "e", "r", "s", "e", "E", "l", "e", "m", "e", "n", "t", ";">>, <<8716>>>>,
     <<<<"N", "o", "t", "R", "i", "g", "h", "t", "T", "r", "i", "a", "n", "g", "l", "e", ";">>, <<8939>>>>,
     <<<<"N", "o", "t", "R", "i", "g", "h", "t", "T", "r", "i", "a", "n", "g", "l", "e", "B", "a", "r", ";">>, <<10704, 824>>>>,
     <<<<"N", "o", "t", "R", "i", "g", "h", "t", "T", "r", "i", "a", "n", "g", "l", "e", "E", "q", "u", "a", "l", ";">>, <<8941>>>>,
     <<<<"N", "o", "t", "S", "q", "u", "a", "r", "e", "S", "u", "b", "s", "e", "t", ";">>, <<8847, 824>>>>,
     <<<<"N", "o", "t", "S", "q", "u", "a", "r", "e", "S", "u", "b", "s", "e", "t", "E", "q", "u", "a", "l", ";">>, <<8930>>>>,
     <<<<"N", "o", "t", "S", "q", "u", "a", "r", "e", "S", "u", "p", "e", "r", "s", "e", "t", ";">>, <<8848, 824>>>>,
     <<<<"N", "o", "t", "S", "q", "u", "a", "r", "e", "S", "u", "p", "e", "r", "s", "e", "t", "E", "q", "u", "a", "l", ";">>, <<8931>>>>,
     <<<<"N", "o", "t", "S", "u", "b", "s", "e", "t", ";">>, <<8834, 8402>>>>,
     <<<<"N", "o", "t", "S", "u", "b", "s", "e", "t", "E", "q", "u", "a", "l", ";">>, <<8840>>>>,
     <<<<"N", "o", "t", "S", "u", "c", "c", "e", "e", "d", "s", ";">>, <<8833>>>>,
     <<<<"N", "o", "t", "S", "u", "c", "c", "e", "e", "d", "s", "E", "q", "u", "a", "l", ";">>, <<10928, 824>>>>,
     <<<<"N", "o", "t", "S", "u", "c", "c", "e", "e", "d", "s", "S", "l", "a", "n", "t", "E", "q", "u", "a", "l", ";">>, <<8929>>>>,
     <<<<"N", "o", "t", "S", "u", "c", "c", "e", "e", "d", "s", "T", "i", "l", "d", "e", ";">>, <<8831, 824>>>>,
     <<<<"N", "o", "t", "S", "u", "p", "e", "r", "s", "e", "t", ";">>, <<8835, 8402>>>>,
     <<<<"N", "o", "t", "S", "u", "p", "e", "r", "s", "e", "t", "E", "q", "u", "a", "l", ";">>, <<8841>>>>,
     <<<<"N", "o", "t", "T", "i", "l", "d", "e", ";">>, <<8769>>>>,
     <<<<"N", "o", "t", "T", "i", "l", "d", "e", "E", "q", "u", "a", "l", ";">>, <<8772>>>>,
     <<<<"N", "o", "t", "T", "i", "l", "d", "e", "F", "u", "l", "l", "E", "q", "u", "a", "l", ";">>, <<8775>>>>,
     <<<<"N", "o", "t", "T", "i", "l", "d", "e", "T", "i", "l", "d", "e", ";">>, <<8777>>>>,
     <<<<"N", "o", "t", "V", "e", "r", "t", "i", "c", "a", "l", "B", "a", "r", ";">>, <<8740>>>>,
     <<<<"N", "s", "c", "r", ";">>, <<119977>>>>,
     <<<<"N", "t", "i", "l", "d", "e">>, <<209>>>>,
     <<<<"N", "t", "i", "l", "d", "e", ";">>, <<209>>>>,
     <<<<"N", "u", ";">>, <<925>>>>,
     <<<<"O", "E", "l", "i", "g", ";">>, <<338>>>>,
     <<<<"O", "a", "c", "u", "t", "e">>, <<211>>>>,
     <<<<"O", "a", "c", "u", "t", "e", ";">>, <<211>>>>,
     <<<<"O", "c", "i", "r", "c">>, <<212>>>>,
     <<<<"O", "c", "i", "r", "c", ";">>, <<212>>>>,
     <<<<"O", "c", "y", ";">>, <<1054>>>>,
     <<<<"O", "d", "b", "l", "a", "c", ";">>, <<336>>>>,
     <<<<"O", "f", "r", ";">>, <<120082>>>>,
     <<<<"O", "g", "r", "a", "v", "e">>, <<210>>>>,
     <<<<"O", "g", "r", "a", "v", "e", ";">>, <<210>>>>,
     <<<<"O", "m", "a", "c", "r", ";">>, <<332>>>>,
     <<<<"O", "m", "e", "g", "a", ";">>, <<937>>>>,
     <<<<"O", "m", "i", "c", "r", "o", "n", ";">>, <<927>>>>,
     <<<<"O", "o", "p", "f", ";">>, <<120134>>>>,
     <<<<"O", "p", "e", "n", "C", "u", "r", "l", "y", "D", "o", "u", "b", "l", "e", "Q", "u", "o", "t", "e", ";">>, <<8220>>>>,
     <<<<"O", "p", "e", "n", "C", "u", "r", "l", "y", "Q", "u", "o", "t", "e", ";">>, <<8216>>>>,
     <<<<"O", "r", ";">>, <<10836>>>>,
     <<<<"O", "s", "c", "r", ";">>, <<119978>>>>,
     <<<<"O", "s", "l", "a", "s", "h">>, <<216>>>>,
     <<<<"O", "s", "l", "a", "s", "h", ";">>, <<216>>>>,
     <<<<"O", "t", "i", "l", "d", "e">>, <<213>>>>,
     <<<<"O", "t", "i", "l", "d", "e", ";">>, <<213>>>>,
     <<<<"O", "t", "i", "m", "e", "s", ";">>, <<10807>>>>,
     <<<<"O", "u", "m", "l">>, <<214>>>>,
     <<<<"O", "u", "m", "l", ";">>, <<214>>>>,
     <<<<"O", "v", "e", "r", "B", "a", "r", ";">>, <<8254>>>>,
     <<<<"O", "v", "e", "r", "B", "r", "a", "c", "e", ";">>, <<9182>>>>,
     <<<<"O", "v", "e", "r", "B", "r", "a", "c", "k", "e", "t", ";">>, <<9140>>>>,
     <<<<"O", "v", "e", "r", "P", "a", "r", "e", "n", "t", "h", "e", "s", "i", "s", ";">>, <<9180>>>>,
     <<<<"P", "a", "r", "t", "i", "a", "l", "D", ";">>, <<8706>>>>,
     <<<<"P", "c", "y", ";">>, <<1055>>>>,
     <<<<"P", "f", "r", ";">>, <<120083>>>>,
     <<<<"P", "h", "i", ";">>, <<934>>>>,
     <<<<"P", "i", ";">>, <<928>>>>,
     <<<<"P", "l", "u", "s", "M", "i", "n", "u", "s", ";">>, <<177>>>>,
     <<<<"P", "o", "i", "n", "c", "a", "r", "e", "p", "l", "a", "n", "e", ";">>, <<8460>>>>,
     <<<<"P", "o", "p", "f", ";">>, <<8473>>>>,
     <<<<"P", "r", ";">>, <<10939>>>>,
     <<<<"P", "r", "e", "c", "e", "d", "e", "s", ";">>, <<8826>>>>,
     <<<<"P", "r", "e", "c", "e", "d", "e", "s", "E", "q", "u", "a", "l", ";">>, <<10927>>>>,
     <<<<"P", "r", "e", "c", "e", "d", "e", "s", "S", "l", "a", "n", "t", "E", "q", "u", "a", "l", ";">>, <<8828>>>>,
     <<<<"P", "r", "e", "c", "e", "d", "e", "s", "T", "i", "l", "d", "e", ";">>, <<8830>>>>,
     <<<<"P", "r", "i", "m", "e", ";">>, <<8243>>>>,
     <<<<"P", "r", "o", "d", "u", "c", "t", ";">>, <<8719>>>>,
     <<<<"P", "r", "o", "p", "o", "r", "t", "i", "o", "n", ";">>, <<8759>>>>,
     <<<<"P", "r", "o", "p", "o", "r", "t", "i", "o", "n", "a", "l", ";">>, <<8733>>>>,
     <<<<"P", "s", "c", "r", ";">>, <<119979>>>>,
     <<<<"P", "s", "i", ";">>, <<936>>>>,
     <<<<"Q", "U", "O", "T">>, <<34>>>>,
     <<<<"Q", "U", "O", "T", ";">>, <<34>>>>,
     <<<<"Q", "f", "r", ";">>, <<120084>>>>,
     <<<<"Q", "o", "p", "f", ";">>, <<8474>>>>,
     <<<<"Q", "s", "c", "r", ";">>, <<119980>>>>,
     <<<<"R", "B", "a", "r", "r", ";">>, <<10512>>>>,
     <<<<"R", "E", "G">>, <<174>>>>,
     <<<<"R", "E", "G", ";">>, <<174>>>>,
     <<<<"R", "a", "c", "u", "t", "e", ";">>, <<340>>>>,
     <<<<"R", "a", "n", "g", ";">>, <<10219>>>>,
     <<<<"R", "a", "r", "r", ";">>, <<8608>>>>,
     <<<<"R", "a", "r", "r", "t", "l", ";">>, <<10518>>>>,
     <<<<"R", "c", "a", "r", "o", "n", ";">>, <<344>>>>,
     <<<<"R", "c", "e", "d", "i", "l", ";">>, <<342>>>>,
     <<<<"R", "c", "y", ";">>, <<1056>>>>,
     <<<<"R", "e", ";">>, <<8476>>>>,
     <<<<"R", "e", "v", "e", "r", "s", "e", "E", "l", "e", "m", "e", "n", "t", ";">>, <<8715>>>>,
     <<<<"R", "e", "v", "e", "r", "s", "e", "E", "q", "u", "i", "l", "i", "b", "r", "i", "u", "m", ";">>, <<8651>>>>,
     <<<<"R", "e", "v", "e", "r", "s", "e", "U", "p", "E", "q", "u", "i", "l", "i", "b", "r", "i", "u", "m", ";">>, <<10607>>>>,
     <<<<"R", "f", "r", ";">>, <<8476>>>>,
     <<<<"R", "h", "o", ";">>, <<929>>>>,
     <<<<"R", "i", "g", "h", "t", "A", "n", "g", "l", "e", "B", "r", "a", "c", "k", "e", "t", ";">>, <<10217>>>>,
     <<<<"R", "i", "g", "h", "t", "A", "r", "r", "o", "w", ";">>, <<8594>>>>,
     <<<<"R", "i", "g", "h", "t", "A", "r", "r", "o", "w", "B", "a", "r", ";">>, <<8677>>>>,
     <<<<"R", "i", "g", "h", "t", "A", "r", "r", "o", "w", "L", "e", "f", "t", "A", "r", "r", "o", "w", ";">>, <<8644>>>>,
     <<<<"R", "i", "g", "h", "t", "C", "e", "i", "l", "i", "n", "g", ";">>, <<8969>>>>,
     <<<<"R", "i", "g", "h", "t", "D", "o", "u", "b", "l", "e", "B", "r", "a", "c", "k", "e", "t", ";">>, <<10215>>>>,
     <<<<"R", "i", "g", "h", "t", "D", "o", "w", "n", "T", "e", "e", "V", "e", "c", "t", "o", "r", ";">>, <<10589>>>>,
     <<<<"R", "i", "g", "h", "t", "D", "o", "w", "n", "V", "e", "c", "t", "o", "r", ";">>, <<8642>>>>,
     <<<<"R", "i", "g", "h", "t", "D", "o", "w", "n", "V", "e", "c", "t", "o", "r", "B", "a", "r", ";">>, <<10581>>>>,
     <<<<"R", "i", "g", "h", "t", "F", "l", "o", "o", "r", ";">>, <<8971>>>>,
     <<<<"R", "i", "g", "h", "t", "T", "e", "e", ";">>, <<8866>>>>,
     <<<<"R", "i", "g", "h", "t", "T", "e", "e", "A", "r", "r", "o", "w", ";">>, <<8614>>>>,
     <<<<"R", "i", "g", "h", "t", "T", "e", "e", "V", "e", "c", "t", "o", "r", ";">>, <<10587>>>>,
     <<<<"R", "i", "g", "h", "t", "T", "r", "i", "a", "n", "g", "l", "e", ";">>, <<8883>>>>,
     <<<<"R", "i", "g", "h", "t", "T", "r", "i", "a", "n", "g", "l", "e", "B", "a", "r", ";">>, <<10704>>>>,
     <<<<"R", "i", "g", "h", "t", "T", "r", "i", "a", "n", "g", "l", "e", "E", "q", "u", "a", "l", ";">>, <<8885>>>>,
     <<<<"R", "i", "g", "h", "t", "U", "p", "D", "o", "w", "n", "V", "e", "c", "t", "o", "r", ";">>, <<10575>>>>,
     <<<<"R", "i", "g", "h", "t", "U", "p", "T", "e", "e", "V", "e", "c", "t", "o", "r", ";">>, <<10588>>>>,
     <<<<"R", "i", "g", "h", "t", "U", "p", "V", "e", "c", "t", "o", "r", ";">>, <<8638>>>>,
     <<<<"R", "i", "g", "h", "t", "U", "p", "V", "e", "c", "t", "o", "r", "B", "a", "r", ";">>, <<10580>>>>,
     <<<<"R", "i", "g", "h", "t", "V", "e", "c", "t", "o", "r", ";">>, <<8640>>>>,
     <<<<"R", "i", "g", "h", "t", "V", "e", "c", "t", "o", "r", "B", "a", "r", ";">>, <<10579>>>>,
     <<<<"R", "i", "g", "h", "t", "a", "r", "r", "o", "w", ";">>, <<8658>>>>,
     <<<<"R", "o", "p", "f", ";">>, <<8477>>>>,
     <<<<"R", "o", "u", "n", "d", "I", "m", "p", "l", "i", "e", "s", ";">>, <<10608>>>>,
     <<<<"R", "r", "i", "g", "h", "t", "a", "r", "r", "o", "w", ";">>, <<8667>>>>,
     <<<<"R", "s", "c", "r", ";">>, <<8475>>>>,
     <<<<"R", "s", "h", ";">>, <<8625>>>>,
     <<<<"R", "u", "l", "e", "D", "e", "l", "a", "y", "e", "d", ";">>, <<10740>>>>,
     <<<<"S", "H", "C", "H", "c", "y", ";">>, <<1065>>>>,
     <<<<"S", "H", "c", "y", ";">>, <<1064>>>>,
     <<<<"S", "O", "F", "T", "c", "y", ";">>, <<1068>>>>,
     <<<<"S", "a", "c", "u", "t", "e", ";">>, <<346>>>>,
     <<<<"S", "c", ";">>, <<10940>>>>,
     <<<<"S", "c", "a", "r", "o", "n", ";">>, <<352>>>>,
     <<<<"S", "c", "e", "d", "i", "l", ";">>, <<350>>>>,
     <<<<"S", "c", "i", "r", "c", ";">>, <<348>>>>,
     <<<<"S", "c", "y", ";">>, <<1057>>>>,
     <<<<"S", "f", "r", ";">>, <<120086>>>>,
     <<<<"S", "h", "o", "r", "t", "D", "o", "w", "n", "A", "r", "r", "o", "w", ";">>, <<8595>>>>,
     <<<<"S", "h", "o", "r", "t", "L", "e", "f", "t", "A", "r", "r", "o", "w", ";">>, <<8592>>>>,
     <<<<"S", "h", "o", "r", "t", "R", "i", "g", "h", "t", "A", "r", "r", "o", "w", ";">>, <<8594>>>>,
     <<<<"S", "h", "o", "r", "t", "U", "p", "A", "r", "r", "o", "w", ";">>, <<8593>>>>,
     <<<<"S", "i", "g", "m", "a", ";">>, <<931>>>>,
     <<<<"S", "m", "a", "l", "l", "C", "i", "r", "c", "l", "e", ";">>, <<8728>>>>,
     <<<<"S", "o", "p", "f", ";">>, <<120138>>>>,
     <<<<"S", "q", "r", "t", ";">>, <<8730>>>>,
     <<<<"S", "q", "u", "a", "r", "e", ";">>, <<9633>>>>,
     <<<<"S", "q", "u", "a", "r", "e", "I", "n", "t", "e", "r", "s", "e", "c", "t", "i", "o", "n", ";">>, <<8851>>>>,
     <<<<"S", "q", "u", "a", "r", "e", "S", "u", "b", "s", "e", "t", ";">>, <<8847>>>>,
     <<<<"S", "q", "u", "a", "r", "e", "S", "u", "b", "s", "e", "t", "E", "q", "u", "a", "l", ";">>, <<8849>>>>,
     <<<<"S", "q", "u", "a", "r", "e", "S", "u", "p", "e", "r", "s", "e", "t", ";">>, <<8848>>>>,
     <<<<"S", "q", "u", "a", "r", "e", "S", "u", "p", "e", "r", "s", "e", "t", "E", "q", "u", "a", "l", ";">>, <<8850>>>>,
     <<<<"S", "q", "u", "a", "r", "e", "U", "n", "i", "o", "n", ";">>, <<8852>>>>,
     <<<<"S", "s", "c", "r", ";">>, <<119982>>>>,
     <<<<"S", "t", "a", "r", ";">>, <<8902>>>>,
     <<<<"S", "u", "b", ";">>, <<8912>>>>,
     <<<<"S", "u", "b", "s", "e", "t", ";">>, <<8912>>>>,
     <<<<"S", "u", "b", "s", "e", "t", "E", "q", "u", "a", "l", ";">>, <<8838>>>>,
     <<<<"S", "u", "c", "c", "e", "e", "d", "s", ";">>, <<8827>>>>,
     <<<<"S", "u", "c", "c", "e", "e", "d", "s", "E", "q", "u", "a", "l", ";">>, <<10928>>>>,
     <<<<"S", "u", "c", "c", "e", "e", "d", "s", "S", "l", "a", "n", "t", "E", "q", "u", "a", "l", ";">>, <<8829>>>>,
     <<<<"S", "u", "c", "c", "e", "e", "d", "s", "T", "i", "l", "d", "e", ";">>, <<8831>>>>,
     <<<<"S", "u", "c", "h", "T", "h", "a", "t", ";">>, <<8715>>>>,
     <<<<"S", "u", "m", ";">>, <<8721>>>>,
     <<<<"S", "u", "p", ";">>, <<8913>>>>,
     <<<<"S", "u", "p", "e", "r", "s", "e", "t", ";">>, <<8835>>>>,
     <<<<"S", "u", "p", "e", "r", "s", "e", "t", "E", "q", "u", "a", "l", ";">>, <<8839>>>>,
     <<<<"S", "u", "p", "s", "e", "t", ";">>, <<8913>>>>,
     <<<<"T", "H", "O", "R", "N">>, <<222>>>>,
     <<<<"T", "H", "O", "R", "N", ";">>, <<222>>>>,
     <<<<"T", "R", "A", "D", "E", ";">>, <<8482>>>>,
     <<<<"T", "S", "H", "c", "y", ";">>, <<1035>>>>,
     <<<<"T", "S", "c", "y", ";">>, <<1062>>>>,
     <<<<"T", "a", "b", ";">>, <<9>>>>,
     <<<<"T", "a", "u", ";">>, <<932>>>>,
     <<<<"T", "c", "a", "r", "o", "n", ";">>, <<356>>>>,
     <<<<"T", "c", "e", "d", "i", "l", ";">>, <<354>>>>,
     <<<<"T", "c", "y", ";">>, <<1058>>>>,
     <<<<"T", "f", "r", ";">>, <<120087>>>>,
     <<<<"T", "h", "e", "r", "e", "f", "o", "r", "e", ";">>, <<8756>>>>,
     <<<<"T", "h", "e", "t", "a", ";">>, <<920>>>>,
     <<<<"T", "h", "i", "c", "k", "S", "p", "a", "c", "e", ";">>, <<8287, 8202>>>>,
     <<<<"T", "h", "i", "n", "S", "p", "a", "c", "e", ";">>, <<8201>>>>,
     <<<<"T", "i", "l", "d", "e", ";">>, <<8764>>>>,
     <<<<"T", "i", "l", "d", "e", "E", "q", "u", "a", "l", ";">>, <<8771>>>>,
     <<<<"T", "i", "l", "d", "e", "F", "u", "l", "l", "E", "q", "u", "a", "l", ";">>, <<8773>>>>,
     <<<<"T", "i", "l", "d", "e", "T", "i", "l", "d", "e", ";">>, <<8776>>>>,
     <<<<"T", "o", "p", "f", ";">>, <<120139>>>>,
     <<<<"T", "r", "i", "p", "l", "e", "D", "o", "t", ";">>, <<8411>>>>,
     <<<<"T", "s", "c", "r", ";">>, <<119983>>>>,
     <<<<"T", "s", "t", "r", "o", "k", ";">>, <<358>>>>,
     <<<<"U", "a", "c", "u", "t", "e">>, <<218>>>>,
     <<<<"U", "a", "c", "u", "t", "e", ";">>, <<218>>>>,
     <<<<"U", "a", "r", "r", ";">>, <<8607>>>>,
     <<<<"U", "a", "r", "r", "o", "c", "i", "r", ";">>, <<10569>>>>,
     <<<<"U", "b", "r", "c", "y", ";">>, <<1038>>>>,
     <<<<"U", "b", "r", "e", "v", "e", ";">>, <<364>>>>,
     <<<<"U", "c", "i", "r", "c">>, <<219>>>>,
     <<<<"U", "c", "i", "r", "c", ";">>, <<219>>>>,
     <<<<"U", "c", "y", ";">>, <<1059>>>>,
     <<<<"U", "d", "b", "l", "a", "c", ";">>, <<368>>>>,
     <<<<"U", "f", "r", ";">>, <<120088>>>>,
     <<<<"U", "g", "r", "a", "v", "e">>, <<217>>>>,
     <<<<"U", "g", "r", "a", "v", "e", ";">>, <<217>>>>,
     <<<<"U", "m", "a", "c", "r", ";">>, <<362>>>>,
     <<<<"U", "n", "d", "e", "r", "B", "a", "r", ";">>, <<95>>>>,
     <<<<"U", "n", "d", "e", "r", "B", "r", "a", "c", "e", ";">>, <<9183>>>>,
     <<<<"U", "n", "d", "e", "r", "B", "r", "a", "c", "k", "e", "t", ";">>, <<9141>>>>,
     <<<<"U", "n", "d", "e", "r", "P", "a", "r", "e", "n", "t", "h", "e", "s", "i", "s", ";">>, <<9181>>>>,
     <<<<"U", "n", "i", "o", "n", ";">>, <<8899>>>>,
     <<<<"U", "n", "i", "o", "n", "P", "l", "u", "s", ";">>, <<8846>>>>,
     <<<<"U", "o", "g", "o", "n", ";">>, <<370>>>>,
     <<<<"U", "o", "p", "f", ";">>, <<120140>>>>,
     <<<<"U", "p", "A", "r", "r", "o", "w", ";">>, <<8593>>>>,
     <<<<"U", "p", "A", "r", "r", "o", "w", "B", "a", "r", ";">>, <<10514>>>>,
     <<<<"U", "p", "A", "r", "r", "o", "w", "D", "o", "w", "n", "A", "r", "r", "o", "w", ";">>, <<8645>>>>,
     <<<<"U", "p", "D", "o", "w", "n", "A", "r", "r", "o", "w", ";">>, <<8597>>>>,
     <<<<"U", "p", "E", "q", "u", "i", "l", "i", "b", "r", "i", "u", "m", ";">>, <<10606>>>>,
     <<<<"U", "p", "T", "e", "e", ";">>, <<8869>>>>,
     <<<<"U", "p", "T", "e", "e", "A", "r", "r", "o", "w", ";">>, <<8613>>>>,
     <<<<"U", "p", "a", "r", "r", "o", "w", ";">>, <<8657>>>>,
     <<<<"U", "p", "d", "o", "w", "n", "a", "r", "r", "o", "w", ";">>, <<8661>>>>,
     <<<<"U", "p", "p", "e", "r", "L", "e", "f", "t", "A", "r", "r", "o", "w", ";">>, <<8598>>>>,
     <<<<"U", "p", "p", "e", "r", "R", "i", "g", "h", "t", "A", "r", "r", "o", "w", ";">>, <<8599>>>>,
     <<<<"U", "p", "s", "i", ";">>, <<978>>>>,
     <<<<"U", "p", "s", "i", "l", "o", "n", ";">>, <<933>>>>,
     <<<<"U", "r", "i", "n", "g", ";">>, <<366>>>>,
     <<<<"U", "s", "c", "r", ";">>, <<119984>>>>,
     <<<<"U", "t", "i", "l", "d", "e", ";">>, <<360>>>>,
     <<<<"U", "u", "m", "l">>, <<220>>>>,
     <<<<"U", "u", "m", "l", ";">>, <<220>>>>,
     <<<<"V", "D", "a", "s", "h", ";">>, <<8875>>>>,
     <<<<"V", "b", "a", "r", ";">>, <<10987>>>>,
     <<<<"V", "c", "y", ";">>, <<1042>>>>,
     <<<<"V", "d", "a", "s", "h", ";">>, <<8873>>>>,
     <<<<"V", "d", "a", "s", "h", "l", ";">>, <<10982>>>>,
     <<<<"V", "e", "e", ";">>, <<8897>>>>,
     <<<<"V", "e", "r", "b", "a", "r", ";">>, <<8214>>>>,
     <<<<"V", "e", "r", "t", ";">>, <<8214>>>>,
     <<<<"V", "e", "r", "t", "i", "c", "a", "l", "B", "a", "r", ";">>, <<8739>>>>,
     <<<<"V", "e", "r", "t", "i", "c", "a", "l", "L", "i", "n", "e", ";">>, <<124>>>>,
     <<<<"V", "e", "r", "t", "i", "c", "a", "l", "S", "e", "p", "a", "r", "a", "t", "o", "r", ";">>, <<10072>>>>,
     <<<<"V", "e", "r", "t", "i", "c", "a", "l", "T", "i", "l", "d", "e", ";">>, <<8768>>>>,
     <<<<"V", "e", "r", "y", "T", "h", "i", "n", "S", "p", "a", "c", "e", ";">>, <<8202>>>>,
     <<<<"V", "f", "r", ";">>, <<120089>>>>,
     <<<<"V", "o", "p", "f", ";">>, <<120141>>>>,
     <<<<"V", "s", "c", "r", ";">>, <<119985>>>>,
     <<<<"V", "v", "d", "a", "s", "h", ";">>, <<8874>>>>,
     <<<<"W", "c", "i", "r", "c", ";">>, <<372>>>>,
     <<<<"W", "e", "d", "g", "e", ";">>, <<8896>>>>,
     <<<<"W", "f", "r", ";">>, <<120090>>>>,
     <<<<"W", "o", "p", "f", ";">>, <<120142>>>>,
     <<<<"W", "s", "c", "r", ";">>, <<119986>>>>,
     <<<<"X", "f", "r", ";">>, <<120091>>>>,
     <<<<"X", "i", ";">>, <<926>>>>,
     <<<<"X", "o", "p", "f", ";">>, <<120143>>>>,
     <<<<"X", "s", "c", "r", ";">>, <<119987>>>>,
     <<<<"Y", "A", "c", "y", ";">>, <<1071>>>>,
     <<<<"Y", "I", "c", "y", ";">>, <<1031>>>>,
     <<<<"Y", "U", "c", "y", ";">>, <<1070>>>>,
     <<<<"Y", "a", "c", "u", "t", "e">>, <<221>>>>,
     <<<<"Y", "a", "c", "u", "t", "e", ";">>, <<221>>>>,
     <<<<"Y", "c", "i", "r", "c", ";">>, <<374>>>>,
     <<<<"Y", "c", "y", ";">>, <<1067>>>>,
     <<<<"Y", "f", "r", ";">>, <<120092>>>>,
     <<<<"Y", "o", "p", "f", ";">>, <<120144>>>>,
     <<<<"Y", "s", "c", "r", ";">>, <<119988>>>>,
     <<<<"Y", "u", "m", "l", ";">>, <<376>>>>,
     <<<<"Z", "H", "c", "y", ";">>, <<1046>>>>,
     <<<<"Z", "a", "c", "u", "t", "e", ";">>, <<377>>>>,
     <<<<"Z", "c", "a", "r", "o", "n", ";">>, <<381>>>>,
     <<<<"Z", "c", "y", ";">>, <<1047>>>>,
     <<<<"Z", "d", "o", "t", ";">>, <<379>>>>,
     <<<<"Z", "e", "r", "o", "W", "i", "d", "t", "h", "S", "p", "a", "c", "e", ";">>, <<8203>>>>,
     <<<<"Z", "e", "t", "a", ";">>, <<918>>>>,
     <<<<"Z", "f", "r", ";">>, <<8488>>>>,
     <<<<"Z", "o", "p", "f", ";">>, <<8484>>>>,
     <<<<"Z", "s", "c", "r", ";">>, <<119989>>>>,
     <<<<"a", "a", "c", "u", "t", "e">>, <<225>>>>,
     <<<<"a", "a", "c", "u", "t", "e", ";">>, <<225>>>>,
     <<<<"a", "b", "r", "e", "v", "e", ";">>, <<259>>>>,
     <<<<"a", "c", ";">>, <<8766>>>>,
     <<<<"a", "c", "E", ";">>, <<8766, 819>>>>,
     <<<<"a", "c", "d", ";">>, <<8767>>>>,
     <<<<"a", "c", "i", "r", "c">>, <<226>>>>,
     <<<<"a", "c", "i", "r", "c", ";">>, <<226>>>>,
     <<<<"a", "c", "u", "t", "e">>, <<180>>>>,
     <<<<"a", "c", "u", "t", "e", ";">>, <<180>>>>,
     <<<<"a", "c", "y", ";">>, <<1072>>>>,
     <<<<"a", "e", "l", "i", "g">>, <<230>>>>,
     <<<<"a", "e", "l", "i", "g", ";">>, <<230>>>>,
     <<<<"a", "f", ";">>, <<8289>>>>,
     <<<<"a", "f", "r", ";">>, <<120094>>>>,
     <<<<"a", "g", "r", "a", "v", "e">>, <<224>>>>,
     <<<<"a", "g", "r", "a", "v", "e", ";">>, <<224>>>>,
     <<<<"a", "l", "e", "f", "s", "y", "m", ";">>, <<8501>>>>,
     <<<<"a", "l", "e", "p", "h", ";">>, <<8501>>>>,
     <<<<"a", "l", "p", "h", "a", ";">>, <<945>>>>,
     <<<<"a", "m", "a", "c", "r", ";">>, <<257>>>>,
     <<<<"a", "m", "a", "l", "g", ";">>, <<10815>>>>,
     <<<<"a", "m", "p">>, <<38>>>>,
     <<<<"a", "m", "p", ";">>, <<38>>>>,
     <<<<"a", "n", "d", ";">>, <<8743>>>>,
     <<<<"a", "n", "d", "a", "n", "d", ";">>, <<10837>>>>,
     <<<<"a", "n", "d", "d", ";">>, <<10844>>>>,
     <<<<"a", "n", "d", "s", "l", "o", "p", "e", ";">>, <<10840>>>>,
     <<<<"a", "n", "d", "v", ";">>, <<10842>>>>,
     <<<<"a", "n", "g", ";">>, <<8736>>>>,
     <<<<"a", "n", "g", "e", ";">>, <<10660>>>>,
     <<<<"a", "n", "g", "l", "e", ";">>, <<8736>>>>,
     <<<<"a", "n", "g", "m", "s", "d", ";">>, <<8737>>>>,
     <<<<"a", "n", "g", "m", "s", "d", "a", "a", ";">>, <<10664>>>>,
     <<<<"a", "n", "g", "m", "s", "d", "a", "b", ";">>, <<10665>>>>,
     <<<<"a", "n", "g", "m", "s", "d", "a", "c", ";">>, <<10666>>>>,
     <<<<"a", "n", "g", "m", "s", "d", "a", "d", ";">>, <<10667>>>>,
     <<<<"a", "n", "g", "m", "s", "d", "a", "e", ";">>, <<10668>>>>,
     <<<<"a", "n", "g", "m", "s", "d", "a", "f", ";">>, <<10669>>>>,
     <<<<"a", "n", "g", "m", "s", "d", "a", "g", ";">>, <<10670>>>>,
     <<<<"a", "n", "g", "m", "s", "d", "a", "h", ";">>, <<10671>>>>,
     <<<<"a", "n", "g", "r", "t", ";">>, <<8735>>>>,
     <<<<"a", "n", "g", "r", "t", "v", "b", ";">>, <<8894>>>>,
     <<<<"a", "n", "g", "r", "t", "v", "b", "d", ";">>, <<10653>>>>,
     <<<<"a", "n", "g", "s", "p", "h", ";">>, <<8738>>>>,
     <<<<"a", "n", "g", "s", "t", ";">>, <<197>>>>,
     <<<<"a", "n", "g", "z", "a", "r", "r", ";">>, <<9084>>>>,
     <<<<"a", "o", "g", "o", "n", ";">>, <<261>>>>,
     <<<<"a", "o", "p", "f", ";">>, <<120146>>>>,
     <<<<"a", "p", ";">>, <<8776>>>>,
     <<<<"a", "p", "E", ";">>, <<10864>>>>,
     <<<<"a", "p", "a", "c", "i", "r", ";">>, <<10863>>>>,
     <<<<"a", "p", "e", ";">>, <<8778>>>>,
     <<<<"a", "p", "i", "d", ";">>, <<8779>>>>,
     <<<<"a", "p", "o", "s", ";">>, <<39>>>>,
     <<<<"a", "p", "p", "r", "o", "x", ";">>, <<8776>>>>,
     <<<<"a", "p", "p", "r", "o", "x", "e", "q", ";">>, <<8778>>>>,
     <<<<"a", "r", "i", "n", "g">>, <<229>>>>,
     <<<<"a", "r", "i", "n", "g", ";">>, <<229>>>>,
     <<<<"a", "s", "c", "r", ";">>, <<119990>>>>,
     <<<<"a", "s", "t", ";">>, <<42>>>>,
     <<<<"a", "s", "y", "m", "p", ";">>, <<8776>>>>,
     <<<<"a", "s", "y", "m", "p", "e", "q", ";">>, <<8781>>>>,
     <<<<"a", "t", "i", "l", "d", "e">>, <<227>>>>,
     <<<<"a", "t", "i", "l", "d", "e", ";">>, <<227>>>>,
     <<<<"a", "u", "m", "l">>, <<228>>>>,
     <<<<"a", "u", "m", "l", ";">>, <<228>>>>,
     <<<<"a", "w", "c", "o", "n", "i", "n", "t", ";">>, <<8755>>>>,
     <<<<"a", "w", "i", "n", "t", ";">>, <<10769>>>>,
     <<<<"b", "N", "o", "t", ";">>, <<10989>>>>,
     <<<<"b", "a", "c", "k", "c", "o", "n", "g", ";">>, <<8780>>>>,
     <<<<"b", "a", "c", "k", "e", "p", "s", "i", "l", "o", "n", ";">>, <<1014>>>>,
     <<<<"b", "a", "c", "k", "p", "r", "i", "m", "e", ";">>, <<8245>>>>,
     <<<<"b", "a", "c", "k", "s", "i", "m", ";">>, <<8765>>>>,
     <<<<"b", "a", "c", "k", "s", "i", "m", "e", "q", ";">>, <<8909>>>>,
     <<<<"b", "a", "r", "v", "e", "e", ";">>, <<8893>>>>,
     <<<<"b", "a", "r", "w", "e", "d", ";">>, <<8965>>>>,
     <<<<"b", "a", "r", "w", "e", "d", "g", "e", ";">>, <<8965>>>>,
     <<<<"b", "b", "r", "k", ";">>, <<9141>>>>,
     <<<<"b", "b", "r", "k", "t", "b", "r", "k", ";">>, <<9142>>>>,
     <<<<"b", "c", "o", "n", "g", ";">>, <<8780>>>>,
     <<<<"b", "c", "y", ";">>, <<1073>>>>,
     <<<<"b", "d", "q", "u", "o", ";">>, <<8222>>>>,
     <<<<"b", "e", "c", "a", "u", "s", ";">>, <<8757>>>>,
     <<<<"b", "e", "c", "a", "u", "s", "e", ";">>, <<8757>>>>,
     <<<<"b", "e", "m", "p", "t", "y", "v", ";">>, <<10672>>>>,
     <<<<"b", "e", "p", "s", "i", ";">>, <<1014>>>>,
     <<<<"b", "e", "r", "n", "o", "u", ";">>, <<8492>>>>,
     <<<<"b", "e", "t", "a", ";">>, <<946>>>>,
     <<<<"b", "e", "t", "h", ";">>, <<8502>>>>,
     <<<<"b", "e", "t", "w", "e", "e", "n", ";">>, <<8812>>>>,
     <<<<"b", "f", "r", ";">>, <<120095>>>>,
     <<<<"b", "i", "g", "c", "a", "p", ";">>, <<8898>>>>,
     <<<<"b", "i", "g", "c", "i", "r", "c", ";">>, <<9711>>>>,
     <<<<"b", "i", "g", "c", "u", "p", ";">>, <<8899>>>>,
     <<<<"b", "i", "g", "o", "d", "o", "t", ";">>, <<10752>>>>,
     <<<<"b", "i", "g", "o", "p", "l", "u", "s", ";">>, <<10753>>>>,
     <<<<"b", "i", "g", "o", "t", "i", "m", "e", "s", ";">>, <<10754>>>>,
     <<<<"b", "i", "g", "s", "q", "c", "u", "p", ";">>, <<10758>>>>,
     <<<<"b", "i", "g", "s", "t", "a", "r", ";">>, <<9733>>>>,
     <<<<"b", "i", "g", "t", "r", "i", "a", "n", "g", "l", "e", "d", "o", "w", "n", ";">>, <<9661>>>>,
     <<<<"b", "i", "g", "t", "r", "i", "a", "n", "g", "l", "e", "u", "p", ";">>, <<9651>>>>,
     <<<<"b", "i", "g", "u", "p", "l", "u", "s", ";">>, <<10756>>>>,
     <<<<"b", "i", "g", "v", "e", "e", ";">>, <<8897>>>>,
     <<<<"b", "i", "g", "w", "e", "d", "g", "e", ";">>, <<8896>>>>,
     <<<<"b", "k", "a", "r", "o", "w", ";">>, <<10509>>>>,
     <<<<"b", "l", "a", "c", "k", "l", "o", "z", "e", "n", "g", "e", ";">>, <<10731>>>>,
     <<<<"b", "l", "a", "c", "k", "s", "q", "u", "a", "r", "e", ";">>, <<9642>>>>,
     <<<<"b", "l", "a", "c", "k", "t", "r", "i", "a", "n", "g", "l", "e", ";">>, <<9652>>>>,
     <<<<"b", "l", "a", "c", "k", "t", "r", "i", "a", "n", "g", "l", "e", "d", "o", "w", "n", ";">>, <<9662>>>>,
     <<<<"b", "l", "a", "c", "k", "t", "r", "i", "a", "n", "g", "l", "e", "l", "e", "f", "t", ";">>, <<9666>>>>,
     <<<<"b", "l", "a", "c", "k", "t", "r", "i", "a", "n", "g", "l", "e", "r", "i", "g", "h", "t", ";">>, <<9656>>>>,
     <<<<"b", "l", "a", "n", "k", ";">>, <<9251>>>>,
     <<<<"b", "l", "k", "1", "2", ";">>, <<9618>>>>,
     <<<<"b", "l", "k", "1", "4", ";">>, <<9617>>>>,
     <<<<"b", "l", "k", "3", "4", ";">>, <<9619>>>>,
     <<<<"b", "l", "o", "c", "k", ";">>, <<9608>>>>,
     <<<<"b", "n", "e", ";">>, <<61, 8421>>>>,
     <<<<"b", "n", "e", "q", "u", "i", "v", ";">>, <<8801, 8421>>>>,
     <<<<"b", "n", "o", "t", ";">>, <<8976>>>>,
     <<<<"b", "o", "p", "f", ";">>, <<120147>>>>,
     <<<<"b", "o", "t", ";">>, <<8869>>>>,
     <<<<"b", "o", "t", "t", "o", "m", ";">>, <<8869>>>>,
     <<<<"b", "o", "w", "t", "i", "e", ";">>, <<8904>>>>,
     <<<<"b", "o", "x", "D", "L", ";">>, <<9559>>>>,
     <<<<"b", "o", "x", "D", "R", ";">>, <<9556>>>>,
     <<<<"b", "o", "x", "D", "l", ";">>, <<9558>>>>,
     <<<<"b", "o", "x", "D", "r", ";">>, <<9555>>>>,
     <<<<"b", "o", "x", "H", ";">>, <<9552>>>>,
     <<<<"b", "o", "x", "H", "D", ";">>, <<9574>>>>,
     <<<<"b", "o", "x", "H", "U", ";">>, <<9577>>>>,
     <<<<"b", "o", "x", "H", "d", ";">>, <<9572>>>>,
     <<<<"b", "o", "x", "H", "u", ";">>, <<9575>>>>,
     <<<<"b", "o", "x", "U", "L", ";">>, <<9565>>>>,
     <<<<"b", "o", "x", "U", "R", ";">>, <<9562>>>>,
     <<<<"b", "o", "x", "U", "l", ";">>, <<9564>>>>,
     <<<<"b", "o", "x", "U", "r", ";">>, <<9561>>>>,
     <<<<"b", "o", "x", "V", ";">>, <<9553>>>>,
     <<<<"b", "o", "x", "V", "H", ";">>, <<9580>>>>,
     <<<<"b", "o", "x", "V", "L", ";">>, <<9571>>>>,
     <<<<"b", "o", "x", "V", "R", ";">>, <<9568>>>>,
     <<<<"b", "o", "x", "V", "h", ";">>, <<9579>>>>,
     <<<<"b", "o", "x", "V", "l", ";">>, <<9570>>>>,
     <<<<"b", "o", "x", "V", "r", ";">>, <<9567>>>>,
     <<<<"b", "o", "x", "b", "o", "x", ";">>, <<10697>>>>,
     <<<<"b", "o", "x", "d", "L", ";">>, <<9557>>>>,
     <<<<"b", "o", "x", "d", "R", ";">>, <<9554>>>>,
     <<<<"b", "o", "x", "d", "l", ";">>, <<9488>>>>,
     <<<<"b", "o", "x", "d", "r", ";">>, <<9484>>>>,
     <<<<"b", "o", "x", "h", ";">>, <<9472>>>>,
     <<<<"b", "o", "x", "h", "D", ";">>, <<9573>>>>,
     <<<<"b", "o", "x", "h", "U", ";">>, <<9576>>>>,
     <<<<"b", "o", "x", "h", "d", ";">>, <<9516>>>>,
     <<<<"b", "o", "x", "h", "u", ";">>, <<9524>>>>,
     <<<<"b", "o", "x", "m", "i", "n", "u", "s", ";">>, <<8863>>>>,
     <<<<"b", "o", "x", "p", "l", "u", "s", ";">>, <<8862>>>>,
     <<<<"b", "o", "x", "t", "i", "m", "e", "s", ";">>, <<8864>>>>,
     <<<<"b", "o", "x", "u", "L", ";">>, <<9563>>>>,
     <<<<"b", "o", "x", "u", "R", ";">>, <<9560>>>>,
     <<<<"b", "o", "x", "u", "l", ";">>, <<9496>>>>,
     <<<<"b", "o", "x", "u", "r", ";">>, <<9492>>>>,
     <<<<"b", "o", "x", "v", ";">>, <<9474>>>>,
     <<<<"b", "o", "x", "v", "H", ";">>, <<9578>>>>,
     <<<<"b", "o", "x", "v", "L", ";">>, <<9569>>>>,
     <<<<"b", "o", "x", "v", "R", ";">>, <<9566>>>>,
     <<<<"b", "o", "x", "v", "h", ";">>, <<9532>>>>,
     <<<<"b", "o", "x", "v", "l", ";">>, <<9508>>>>,
     <<<<"b", "o", "x", "v", "r", ";">>, <<9500>>>>,
     <<<<"b", "p", "r", "i", "m", "e", ";">>, <<8245>>>>,
     <<<<"b", "r", "e", "v", "e", ";">>, <<728>>>>,
     <<<<"b", "r", "v", "b", "a", "r">>, <<166>>>>,
     <<<<"b", "r", "v", "b", "a", "r", ";">>, <<166>>>>,
     <<<<"b", "s", "c", "r", ";">>, <<119991>>>>,
     <<<<"b", "s", "e", "m", "i", ";">>, <<8271>>>>,
     <<<<"b", "s", "i", "m", ";">>, <<8765>>>>,
     <<<<"b", "s", "i", "m", "e", ";">>, <<8909>>>>,
     <<<<"b", "s", "o", "l", ";">>, <<92>>>>,
     <<<<"b", "s", "o", "l", "b", ";">>, <<10693>>>>,
     <<<<"b", "s", "o", "l", "h", "s", "u", "b", ";">>, <<10184>>>>,
     <<<<"b", "u", "l", "l", ";">>, <<8226>>>>,
     <<<<"b", "u", "l", "l", "e", "t", ";">>, <<8226>>>>,
     <<<<"b", "u", "m", "p", ";">>, <<8782>>>>,
     <<<<"b", "u", "m", "p", "E", ";">>, <<10926>>>>,
     <<<<"b", "u", "m", "p", "e", ";">>, <<8783>>>>,
     <<<<"b", "u", "m", "p", "e", "q", ";">>, <<8783>>>>,
     <<<<"c", "a", "c", "u", "t", "e", ";">>, <<263>>>>,
     <<<<"c", "a", "p", ";">>, <<8745>>>>,
     <<<<"c", "a", "p", "a", "n", "d", ";">>, <<10820>>>>,
     <<<<"c", "a", "p", "b", "r", "c", "u", "p", ";">>, <<10825>>>>,
     <<<<"c", "a", "p", "c", "a", "p", ";">>, <<10827>>>>,
     <<<<"c", "a", "p", "c", "u", "p", ";">>, <<10823>>>>,
     <<<<"c", "a", "p", "d", "o", "t", ";">>, <<10816>>>>,
     <<<<"c", "a", "p", "s", ";">>, <<8745, 65024>>>>,
     <<<<"c", "a", "r", "e", "t", ";">>, <<8257>>>>,
     <<<<"c", "a", "r", "o", "n", ";">>, <<711>>>>,
     <<<<"c", "c", "a", "p", "s", ";">>, <<10829>>>>,
     <<<<"c", "c", "a", "r", "o", "n", ";">>, <<269>>>>,
     <<<<"c", "c", "e", "d", "i", "l">>, <<231>>>>,
     <<<<"c", "c", "e", "d", "i", "l", ";">>, <<231>>>>,
     <<<<"c", "c", "i", "r", "c", ";">>, <<265>>>>,
     <<<<"c", "c", "u", "p", "s", ";">>, <<10828>>>>,
     <<<<"c", "c", "u", "p", "s", "s", "m", ";">>, <<10832>>>>,
     <<<<"c", "d", "o", "t", ";">>, <<267>>>>,
     <<<<"c", "e", "d", "i", "l">>, <<184>>>>,
     <<<<"c", "e", "d", "i", "l", ";">>, <<184>>>>,
     <<<<"c", "e", "m", "p", "t", "y", "v", ";">>, <<10674>>>>,
     <<<<"c", "e", "n", "t">>, <<162>>>>,
     <<<<"c", "e", "n", "t", ";">>, <<162>>>>,
     <<<<"c", "e", "n", "t", "e", "r", "d", "o", "t", ";">>, <<183>>>>,
     <<<<"c", "f", "r", ";">>, <<120096>>>>,
     <<<<"c", "h", "c", "y", ";">>, <<1095>>>>,
     <<<<"c", "h", "e", "c", "k", ";">>, <<10003>>>>,
     <<<<"c", "h", "e", "c", "k", "m", "a", "r", "k", ";">>, <<10003>>>>,
     <<<<"c", "h", "i", ";">>, <<967>>>>,
     <<<<"c", "i", "r", ";">>, <<9675>>>>,
     <<<<"c", "i", "r", "E", ";">>, <<10691>>>>,
     <<<<"c", "i", "r", "c", ";">>, <<710>>>>,
     <<<<"c", "i", "r", "c", "e", "q", ";">>, <<8791>>>>,
     <<<<"c", "i", "r", "c", "l", "e", "a", "r", "r", "o", "w", "l", "e", "f", "t", ";">>, <<8634>>>>,
     <<<<"c", "i", "r", "c", "l", "e", "a", "r", "r", "o", "w", "r", "i", "g", "h", "t", ";">>, <<8635>>>>,
     <<<<"c", "i", "r", "c", "l", "e", "d", "R", ";">>, <<174>>>>,
     <<<<"c", "i", "r", "c", "l", "e", "d", "S", ";">>, <<9416>>>>,
     <<<<"c", "i", "r", "c", "l", "e", "d", "a", "s", "t", ";">>, <<8859>>>>,
     <<<<"c", "i", "r", "c", "l", "e", "d", "c", "i", "r", "c", ";">>, <<8858>>>>,
     <<<<"c", "i", "r", "c", "l", "e", "d", "d", "a", "s", "h", ";">>, <<8861>>>>,
     <<<<"c", "i", "r", "e", ";">>, <<8791>>>>,
     <<<<"c", "i", "r", "f", "n", "i", "n", "t", ";">>, <<10768>>>>,
     <<<<"c", "i", "r", "m", "i", "d", ";">>, <<10991>>>>,
     <<<<"c", "i", "r", "s", "c", "i", "r", ";">>, <<10690>>>>,
     <<<<"c", "l", "u", "b", "s", ";">>, <<9827>>>>,
     <<<<"c", "l", "u", "b", "s", "u", "i", "t", ";">>, <<9827>>>>,
     <<<<"c", "o", "l", "o", "n", ";">>, <<58>>>>,
     <<<<"c", "o", "l", "o", "n", "e", ";">>, <<8788>>>>,
     <<<<"c", "o", "l", "o", "n", "e", "q", ";">>, <<8788>>>>,
     <<<<"c", "o", "m", "m", "a", ";">>, <<44>>>>,
     <<<<"c", "o", "m", "m", "a", "t", ";">>, <<64>>>>,
     <<<<"c", "o", "m", "p", ";">>, <<8705>>>>,
     <<<<"c", "o", "m", "p", "f", "n", ";">>, <<8728>>>>,
     <<<<"c", "o", "m", "p", "l", "e", "m", "e", "n", "t", ";">>, <<8705>>>>,
     <<<<"c", "o", "m", "p", "l", "e", "x", "e", "s", ";">>, <<8450>>>>,
     <<<<"c", "o", "n", "g", ";">>, <<8773>>>>,
     <<<<"c", "o", "n", "g", "d", "o", "t", ";">>, <<10861>>>>,
     <<<<"c", "o", "n", "i", "n", "t", ";">>, <<8750>>>>,
     <<<<"c", "o", "p", "f", ";">>, <<120148>>>>,
     <<<<"c", "o", "p", "r", "o", "d", ";">>, <<8720>>>>,
     <<<<"c", "o", "p", "y">>, <<169>>>>,
     <<<<"c", "o", "p", "y", ";">>, <<169>>>>,
     <<<<"c", "o", "p", "y", "s", "r", ";">>, <<8471>>>>,
     <<<<"c", "r", "a", "r", "r", ";">>, <<8629>>>>,
     <<<<"c", "r", "o", "s", "s", ";">>, <<10007>>>>,
     <<<<"c", "s", "c", "r", ";">>, <<119992>>>>,
     <<<<"c", "s", "u", "b", ";">>, <<10959>>>>,
     <<<<"c", "s", "u", "b", "e", ";">>, <<10961>>>>,
     <<<<"c", "s", "u", "p", ";">>, <<10960>>>>,
     <<<<"c", "s", "u", "p", "e", ";">>, <<10962>>>>,
     <<<<"c", "t", "d", "o", "t", ";">>, <<8943>>>>,
     <<<<"c", "u", "d", "a", "r", "r", "l", ";">>, <<10552>>>>,
     <<<<"c", "u", "d", "a", "r", "r", "r", ";">>, <<10549>>>>,
     <<<<"c", "u", "e", "p", "r", ";">>, <<8926>>>>,
     <<<<"c", "u", "e", "s", "c", ";">>, <<8927>>>>,
     <<<<"c", "u", "l", "a", "r", "r", ";">>, <<8630>>>>,
     <<<<"c", "u", "l", "a", "r", "r", "p", ";">>, <<10557>>>>,
     <<<<"c", "u", "p", ";">>, <<8746>>>>,
     <<<<"c", "u", "p", "b", "r", "c", "a", "p", ";">>, <<10824>>>>,
     <<<<"c", "u", "p", "c", "a", "p", ";">>, <<10822>>>>,
     <<<<"c", "u", "p", "c", "u", "p", ";">>, <<10826>>>>,
     <<<<"c", "u", "p", "d", "o", "t", ";">>, <<8845>>>>,
     <<<<"c", "u", "p", "o", "r", ";">>, <<10821>>>>,
     <<<<"c", "u", "p", "s", ";">>, <<8746, 65024>>>>,
     <<<<"c", "u", "r", "a", "r", "r", ";">>, <<8631>>>>,
     <<<<"c", "u", "r", "a", "r", "r", "m", ";">>, <<10556>>>>,
     <<<<"c", "u", "r", "l", "y", "e", "q", "p", "r", "e", "c", ";">>, <<8926>>>>,
     <<<<"c", "u", "r", "l", "y", "e", "q", "s", "u", "c", "c", ";">>, <<8927>>>>,
     <<<<"c", "u", "r", "l", "y", "v", "e", "e", ";">>, <<8910>>>>,
     <<<<"c", "u", "r", "l", "y", "w", "e", "d", "g", "e", ";">>, <<8911>>>>,
     <<<<"c", "u", "r", "r", "e", "n">>, <<164>>>>,
     <<<<"c", "u", "r", "r", "e", "n", ";">>, <<164>>>>,
     <<<<"c", "u", "r", "v", "e", "a", "r", "r", "o", "w", "l", "e", "f", "t", ";">>, <<8630>>>>,
     <<<<"c", "u", "r", "v", "e", "a", "r", "r", "o", "w", "r", "i", "g", "h", "t", ";">>, <<8631>>>>,
     <<<<"c", "u", "v", "e", "e", ";">>, <<8910>>>>,
     <<<<"c", "u", "w", "e", "d", ";">>, <<8911>>>>,
     <<<<"c", "w", "c", "o", "n", "i", "n", "t", ";">>, <<8754>>>>,
     <<<<"c", "w", "i", "n", "t", ";">>, <<8753>>>>,
     <<<<"c", "y", "l", "c", "t", "y", ";">>, <<9005>>>>,
     <<<<"d", "A", "r", "r", ";">>, <<8659>>>>,
     <<<<"d", "H", "a", "r", ";">>, <<10597>>>>,
     <<<<"d", "a", "g", "g", "e", "r", ";">>, <<8224>>>>,
     <<<<"d", "a", "l", "e", "t", "h", ";">>, <<8504>>>>,
     <<<<"d", "a", "r", "r", ";">>, <<8595>>>>,
     <<<<"d", "a", "s", "h", ";">>, <<8208>>>>,
     <<<<"d", "a", "s", "h", "v", ";">>, <<8867>>>>,
     <<<<"d", "b", "k", "a", "r", "o", "w", ";">>, <<10511>>>>,
     <<<<"d", "b", "l", "a", "c", ";">>, <<733>>>>,
     <<<<"d", "c", "a", "r", "o", "n", ";">>, <<271>>>>,
     <<<<"d", "c", "y", ";">>, <<1076>>>>,
     <<<<"d", "d", ";">>, <<8518>>>>,
     <<<<"d", "d", "a", "g", "g", "e", "r", ";">>, <<8225>>>>,
     <<<<"d", "d", "a", "r", "r", ";">>, <<8650>>>>,
     <<<<"d", "d", "o", "t", "s", "e", "q", ";">>, <<10871>>>>,
     <<<<"d", "e", "g">>, <<176>>>>,
     <<<<"d", "e", "g", ";">>, <<176>>>>,
     <<<<"d", "e", "l", "t", "a", ";">>, <<948>>>>,
     <<<<"d", "e", "m", "p", "t", "y", "v", ";">>, <<10673>>>>,
     <<<<"d", "f", "i", "s", "h", "t", ";">>, <<10623>>>>,
     <<<<"d", "f", "r", ";">>, <<120097>>>>,
     <<<<"d", "h", "a", "r", "l", ";">>, <<8643>>>>,
     <<<<"d", "h", "a", "r", "r", ";">>, <<8642>>>>,
     <<<<"d", "i", "a", "m", ";">>, <<8900>>>>,
     <<<<"d", "i", "a", "m", "o", "n", "d", ";">>, <<8900>>>>,
     <<<<"d", "i", "a", "m", "o", "n", "d", "s", "u", "i", "t", ";">>, <<9830>>>>,
     <<<<"d", "i", "a", "m", "s", ";">>, <<9830>>>>,
     <<<<"d", "i", "e", ";">>, <<168>>>>,
     <<<<"d", "i", "g", "a", "m", "m", "a", ";">>, <<989>>>>,
     <<<<"d", "i", "s", "i", "n", ";">>, <<8946>>>>,
     <<<<"d", "i", "v", ";">>, <<247>>>>,
     <<<<"d", "i", "v", "i", "d", "e">>, <<247>>>>,
     <<<<"d", "i", "v", "i", "d", "e", ";">>, <<247>>>>,
     <<<<"d", "i", "v", "i", "d", "e", "o", "n", "t", "i", "m", "e", "s", ";">>, <<8903>>>>,
     <<<<"d", "i", "v", "o", "n", "x", ";">>, <<8903>>>>,
     <<<<"d", "j", "c", "y", ";">>, <<1106>>>>,
     <<<<"d", "l", "c", "o", "r", "n", ";">>, <<8990>>>>,
     <<<<"d", "l", "c", "r", "o", "p", ";">>, <<8973>>>>,
     <<<<"d", "o", "l", "l", "a", "r", ";">>, <<36>>>>,
     <<<<"d", "o", "p", "f", ";">>, <<120149>>>>,
     <<<<"d", "o", "t", ";">>, <<729>>>>,
     <<<<"d", "o", "t", "e", "q", ";">>, <<8784>>>>,
     <<<<"d", "o", "t", "e", "q", "d", "o", "t", ";">>, <<8785>>>>,
     <<<<"d", "o", "t", "m", "i", "n", "u", "s", ";">>, <<8760>>>>,
     <<<<"d", "o", "t", "p", "l", "u", "s", ";">>, <<8724>>>>,
     <<<<"d", "o", "t", "s", "q", "u", "a", "r", "e", ";">>, <<8865>>>>,
     <<<<"d", "o", "u", "b", "l", "e", "b", "a", "r", "w", "e", "d", "g", "e", ";">>, <<8966>>>>,
     <<<<"d", "o", "w", "n", "a", "r", "r", "o", "w", ";">>, <<8595>>>>,
     <<<<"d", "o", "w", "n", "d", "o", "w", "n", "a", "r", "r", "o", "w", "s", ";">>, <<8650>>>>,
     <<<<"d", "o", "w", "n", "h", "a", "r", "p", "o", "o", "n", "l", "e", "f", "t", ";">>, <<8643>>>>,
     <<<<"d", "o", "w", "n", "h", "a", "r", "p", "o", "o", "n", "r", "i", "g", "h", "t", ";">>, <<8642>>>>,
     <<<<"d", "r", "b", "k", "a", "r", "o", "w", ";">>, <<10512>>>>,
     <<<<"d", "r", "c", "o", "r", "n", ";">>, <<8991>>>>,
     <<<<"d", "r", "c", "r", "o", "p", ";">>, <<8972>>>>,
     <<<<"d", "s", "c", "r", ";">>, <<119993>>>>,
     <<<<"d", "s", "c", "y", ";">>, <<1109>>>>,
     <<<<"d", "s", "o", "l", ";">>, <<10742>>>>,
     <<<<"d", "s", "t", "r", "o", "k", ";">>, <<273>>>>,
     <<<<"d", "t", "d", "o", "t", ";">>, <<8945>>>>,
     <<<<"d", "t", "r", "i", ";">>, <<9663>>>>,
     <<<<"d", "t", "r", "i", "f", ";">>, <<9662>>>>,
     <<<<"d", "u", "a", "r", "r", ";">>, <<8693>>>>,
     <<<<"d", "u", "h", "a", "r", ";">>, <<10607>>>>,
     <<<<"d", "w", "a", "n", "g", "l", "e", ";">>, <<10662>>>>,
     <<<<"d", "z", "c", "y", ";">>, <<1119>>>>,
     <<<<"d", "z", "i", "g", "r", "a", "r", "r", ";">>, <<10239>>>>,
     <<<<"e", "D", "D", "o", "t", ";">>, <<10871>>>>,
     <<<<"e", "D", "o", "t", ";">>, <<8785>>>>,
     <<<<"e", "a", "c", "u", "t", "e">>, <<233>>>>,
     <<<<"e", "a", "c", "u", "t", "e", ";">>, <<233>>>>,
     <<<<"e", "a", "s", "t", "e", "r", ";">>, <<10862>>>>,
     <<<<"e", "c", "a", "r", "o", "n", ";">>, <<283>>>>,
     <<<<"e", "c", "i", "r", ";">>, <<8790>>>>,
     <<<<"e", "c", "i", "r", "c">>, <<234>>>>,
     <<<<"e", "c", "i", "r", "c", ";">>, <<234>>>>,
     <<<<"e", "c", "o", "l", "o", "n", ";">>, <<8789>>>>,
     <<<<"e", "c", "y", ";">>, <<1101>>>>,
     <<<<"e", "d", "o", "t", ";">>, <<279>>>>,
     <<<<"e", "e", ";">>, <<8519>>>>,
     <<<<"e", "f", "D", "o", "t", ";">>, <<8786>>>>,
     <<<<"e", "f", "r", ";">>, <<120098>>>>,
     <<<<"e", "g", ";">>, <<10906>>>>,
     <<<<"e", "g", "r", "a", "v", "e">>, <<232>>>>,
     <<<<"e", "g", "r", "a", "v", "e", ";">>, <<232>>>>,
     <<<<"e", "g", "s", ";">>, <<10902>>>>,
     <<<<"e", "g", "s", "d", "o", "t", ";">>, <<10904>>>>,
     <<<<"e", "l", ";">>, <<10905>>>>,
     <<<<"e", "l", "i", "n", "t", "e", "r", "s", ";">>, <<9191>>>>,
     <<<<"e", "l", "l", ";">>, <<8467>>>>,
     <<<<"e", "l", "s", ";">>, <<10901>>>>,
     <<<<"e", "l", "s", "d", "o", "t", ";">>, <<10903>>>>,
     <<<<"e", "m", "a", "c", "r", ";">>, <<275>>>>,
     <<<<"e", "m", "p", "t", "y", ";">>, <<8709>>>>,
     <<<<"e", "m", "p", "t", "y", "s", "e", "t", ";">>, <<8709>>>>,
     <<<<"e", "m", "p", "t", "y", "v", ";">>, <<8709>>>>,
     <<<<"e", "m", "s", "p", "1", "3", ";">>, <<8196>>>>,
     <<<<"e", "m", "s", "p", "1", "4", ";">>, <<8197>>>>,
     <<<<"e", "m", "s", "p", ";">>, <<8195>>>>,
     <<<<"e", "n", "g", ";">>, <<331>>>>,
     <<<<"e", "n", "s", "p", ";">>, <<8194>>>>,
     <<<<"e", "o", "g", "o", "n", ";">>, <<281>>>>,
     <<<<"e", "o", "p", "f", ";">>, <<120150>>>>,
     <<<<"e", "p", "a", "r", ";">>, <<8917>>>>,
     <<<<"e", "p", "a", "r", "s", "l", ";">>, <<10723>>>>,
     <<<<"e", "p", "l", "u", "s", ";">>, <<10865>>>>,
     <<<<"e", "p", "s", "i", ";">>, <<949>>>>,
     <<<<"e", "p", "s", "i", "l", "o", "n", ";">>, <<949>>>>,
     <<<<"e", "p", "s", "i", "v", ";">>, <<1013>>>>,
     <<<<"e", "q", "c", "i", "r", "c", ";">>, <<8790>>>>,
     <<<<"e", "q", "c", "o", "l", "o", "n", ";">>, <<8789>>>>,
     <<<<"e", "q", "s", "i", "m", ";">>, <<8770>>>>,
     <<<<"e", "q", "s", "l", "a", "n", "t", "g", "t", "r", ";">>, <<10902>>>>,
     <<<<"e", "q", "s", "l", "a", "n", "t", "l", "e", "s", "s", ";">>, <<10901>>>>,
     <<<<"e", "q", "u", "a", "l", "s", ";">>, <<61>>>>,
     <<<<"e", "q", "u", "e", "s", "t", ";">>, <<8799>>>>,
     <<<<"e", "q", "u", "i", "v", ";">>, <<8801>>>>,
     <<<<"e", "q", "u", "i", "v", "D", "D", ";">>, <<10872>>>>,
     <<<<"e", "q", "v", "p", "a", "r", "s", "l", ";">>, <<10725>>>>,
     <<<<"e", "r", "D", "o", "t", ";">>, <<8787>>>>,
     <<<<"e", "r", "a", "r", "r", ";">>, <<10609>>>>,
     <<<<"e", "s", "c", "r", ";">>, <<8495>>>>,
     <<<<"e", "s", "d", "o", "t", ";">>, <<8784>>>>,
     <<<<"e", "s", "i", "m", ";">>, <<8770>>>>,
     <<<<"e", "t", "a", ";">>, <<951>>>>,
     <<<<"e", "t", "h">>, <<240>>>>,
     <<<<"e", "t", "h", ";">>, <<240>>>>,
     <<<<"e", "u", "m", "l">>, <<235>>>>,
     <<<<"e", "u", "m", "l", ";">>, <<235>>>>,
     <<<<"e", "u", "r", "o", ";">>, <<8364>>>>,
     <<<<"e", "x", "c", "l", ";">>, <<33>>>>,
     <<<<"e", "x", "i", "s", "t", ";">>, <<8707>>>>,
     <<<<"e", "x", "p", "e", "c", "t", "a", "t", "i", "o", "n", ";">>, <<8496>>>>,
     <<<<"e", "x", "p", "o", "n", "e", "n", "t", "i", "a", "l", "e", ";">>, <<8519>>>>,
     <<<<"f", "a", "l", "l", "i", "n", "g", "d", "o", "t", "s", "e", "q", ";">>, <<8786>>>>,
     <<<<"f", "c", "y", ";">>, <<1092>>>>,
     <<<<"f", "e", "m", "a", "l", "e", ";">>, <<9792>>>>,
     <<<<"f", "f", "i", "l", "i", "g", ";">>, <<64259>>>>,
     <<<<"f", "f", "l", "i", "g", ";">>, <<64256>>>>,
     <<<<"f", "f", "l", "l", "i", "g", ";">>, <<64260>>>>,
     <<<<"f", "f", "r", ";">>, <<120099>>>>,
     <<<<"f", "i", "l", "i", "g", ";">>, <<64257>>>>,
     <<<<"f", "j", "l", "i", "g", ";">>, <<102, 106>>>>,
     <<<<"f", "l", "a", "t", ";">>, <<9837>>>>,
     <<<<"f", "l", "l", "i", "g", ";">>, <<64258>>>>,
     <<<<"f", "l", "t", "n", "s", ";">>, <<9649>>>>,
     <<<<"f", "n", "o", "f", ";">>, <<402>>>>,
     <<<<"f", "o", "p", "f", ";">>, <<120151>>>>,
     <<<<"f", "o", "r", "a", "l", "l", ";">>, <<8704>>>>,
     <<<<"f", "o", "r", "k", ";">>, <<8916>>>>,
     <<<<"f", "o", "r", "k", "v", ";">>, <<10969>>>>,
     <<<<"f", "p", "a", "r", "t", "i", "n", "t", ";">>, <<10765>>>>,
     <<<<"f", "r", "a", "c", "1", "2">>, <<189>>>>,
     <<<<"f", "r", "a", "c", "1", "2", ";">>, <<189>>>>,
     <<<<"f", "r", "a", "c", "1", "3", ";">>, <<8531>>>>,
     <<<<"f", "r", "a", "c", "1", "4">>, <<188>>>>,
     <<<<"f", "r", "a", "c", "1", "4", ";">>, <<188>>>>,
     <<<<"f", "r", "a", "c", "1", "5", ";">>, <<8533>>>>,
     <<<<"f", "r", "a", "c", "1", "6", ";">>, <<8537>>>>,
     <<<<"f", "r", "a", "c", "1", "8", ";">>, <<8539>>>>,
     <<<<"f", "r", "a", "c", "2", "3", ";">>, <<8532>>>>,
     <<<<"f", "r", "a", "c", "2", "5", ";">>, <<8534>>>>,
     <<<<"f", "r", "a", "c", "3", "4">>, <<190>>>>,
     <<<<"f", "r", "a", "c", "3", "4", ";">>, <<190>>>>,
     <<<<"f", "r", "a", "c", "3", "5", ";">>, <<8535>>>>,
     <<<<"f", "r", "a", "c", "3", "8", ";">>, <<8540>>>>,
     <<<<"f", "r", "a", "c", "4", "5", ";">>, <<8536>>>>,
     <<<<"f", "r", "a", "c", "5", "6", ";">>, <<8538>>>>,
     <<<<"f", "r", "a", "c", "5", "8", ";">>, <<8541>>>>,
     <<<<"f", "r", "a", "c", "7", "8", ";">>, <<8542>>>>,
     <<<<"f", "r", "a", "s", "l", ";">>, <<8260>>>>,
     <<<<"f", "r", "o", "w", "n", ";">>, <<8994>>>>,
     <<<<"f", "s", "c", "r", ";">>, <<119995>>>>,
     <<<<"g", "E", ";">>, <<8807>>>>,
     <<<<"g", "E", "l", ";">>, <<10892>>>>,
     <<<<"g", "a", "c", "u", "t", "e", ";">>, <<501>>>>,
     <<<<"g", "a", "m", "m", "a", ";">>, <<947>>>>,
     <<<<"g", "a", "m", "m", "a", "d", ";">>, <<989>>>>,
     <<<<"g", "a", "p", ";">>, <<10886>>>>,
     <<<<"g", "b", "r", "e", "v", "e", ";">>, <<287>>>>,
     <<<<"g", "c", "i", "r", "c", ";">>, <<285>>>>,
     <<<<"g", "c", "y", ";">>, <<1075>>>>,
     <<<<"g", "d", "o", "t", ";">>, <<289>>>>,
     <<<<"g", "e", ";">>, <<8805>>>>,
     <<<<"g", "e", "l", ";">>, <<8923>>>>,
     <<<<"g", "e", "q", ";">>, <<8805>>>>,
     <<<<"g", "e", "q", "q", ";">>, <<8807>>>>,
     <<<<"g", "e", "q", "s", "l", "a", "n", "t", ";">>, <<10878>>>>,
     <<<<"g", "e", "s", ";">>, <<10878>>>>,
     <<<<"g", "e", "s", "c", "c", ";">>, <<10921>>>>,
     <<<<"g", "e", "s", "d", "o", "t", ";">>, <<10880>>>>,
     <<<<"g", "e", "s", "d", "o", "t", "o", ";">>, <<10882>>>>,
     <<<<"g", "e", "s", "d", "o", "t", "o", "l", ";">>, <<10884>>>>,
     <<<<"g", "e", "s", "l", ";">>, <<8923, 65024>>>>,
     <<<<"g", "e", "s", "l", "e", "s", ";">>, <<10900>>>>,
     <<<<"g", "f", "r", ";">>, <<120100>>>>,
     <<<<"g", "g", ";">>, <<8811>>>>,
     <<<<"g", "g", "g", ";">>, <<8921>>>>,
     <<<<"g", "i", "m", "e", "l", ";">>, <<8503>>>>,
     <<<<"g", "j", "c", "y", ";">>, <<1107>>>>,
     <<<<"g", "l", ";">>, <<8823>>>>,
     <<<<"g", "l", "E", ";">>, <<10898>>>>,
     <<<<"g", "l", "a", ";">>, <<10917>>>>,
     <<<<"g", "l", "j", ";">>, <<10916>>>>,
     <<<<"g", "n", "E", ";">>, <<8809>>>>,
     <<<<"g", "n", "a", "p", ";">>, <<10890>>>>,
     <<<<"g", "n", "a", "p", "p", "r", "o", "x", ";">>, <<10890>>>>,
     <<<<"g", "n", "e", ";">>, <<10888>>>>,
     <<<<"g", "n", "e", "q", ";">>, <<10888>>>>,
     <<<<"g", "n", "e", "q", "q", ";">>, <<8809>>>>,
     <<<<"g", "n", "s", "i", "m", ";">>, <<8935>>>>,
     <<<<"g", "o", "p", "f", ";">>, <<120152>>>>,
     <<<<"g", "r", "a", "v", "e", ";">>, <<96>>>>,
     <<<<"g", "s", "c", "r", ";">>, <<8458>>>>,
     <<<<"g", "s", "i", "m", ";">>, <<8819>>>>,
     <<<<"g", "s", "i", "m", "e", ";">>, <<10894>>>>,
     <<<<"g", "s", "i", "m", "l", ";">>, <<10896>>>>,
     <<<<"g", "t">>, <<62>>>>,
     <<<<"g", "t", ";">>, <<62>>>>,
     <<<<"g", "t", "c", "c", ";">>, <<10919>>>>,
     <<<<"g", "t", "c", "i", "r", ";">>, <<10874>>>>,
     <<<<"g", "t", "d", "o", "t", ";">>, <<8919>>>>,
     <<<<"g", "t", "l", "P", "a", "r", ";">>, <<10645>>>>,
     <<<<"g", "t", "q", "u", "e", "s", "t", ";">>, <<10876>>>>,
     <<<<"g", "t", "r", "a", "p", "p", "r", "o", "x", ";">>, <<10886>>>>,
     <<<<"g", "t", "r", "a", "r", "r", ";">>, <<10616>>>>,
     <<<<"g", "t", "r", "d", "o", "t", ";">>, <<8919>>>>,
     <<<<"g", "t", "r", "e", "q", "l", "e", "s", "s", ";">>, <<8923>>>>,
     <<<<"g", "t", "r", "e", "q", "q", "l", "e", "s", "s", ";">>, <<10892>>>>,
     <<<<"g", "t", "r", "l", "e", "s", "s", ";">>, <<8823>>>>,
     <<<<"g", "t", "r", "s", "i", "m", ";">>, <<8819>>>>,
     <<<<"g", "v", "e", "r", "t", "n", "e", "q", "q", ";">>, <<8809, 65024>>>>,
     <<<<"g", "v", "n", "E", ";">>, <<8809, 65024>>>>,
     <<<<"h", "A", "r", "r", ";">>, <<8660>>>>,
     <<<<"h", "a", "i", "r", "s", "p", ";">>, <<8202>>>>,
     <<<<"h", "a", "l", "f", ";">>, <<189>>>>,
     <<<<"h", "a", "m", "i", "l", "t", ";">>, <<8459>>>>,
     <<<<"h", "a", "r", "d", "c", "y", ";">>, <<1098>>>>,
     <<<<"h", "a", "r", "r", ";">>, <<8596>>>>,
     <<<<"h", "a", "r", "r", "c", "i", "r", ";">>, <<10568>>>>,
     <<<<"h", "a", "r", "r", "w", ";">>, <<8621>>>>,
     <<<<"h", "b", "a", "r", ";">>, <<8463>>>>,
     <<<<"h", "c", "i", "r", "c", ";">>, <<293>>>>,
     <<<<"h", "e", "a", "r", "t", "s", ";">>, <<9829>>>>,
     <<<<"h", "e", "a", "r", "t", "s", "u", "i", "t", ";">>, <<9829>>>>,
     <<<<"h", "e", "l", "l", "i", "p", ";">>, <<8230>>>>,
     <<<<"h", "e", "r", "c", "o", "n", ";">>, <<8889>>>>,
     <<<<"h", "f", "r", ";">>, <<120101>>>>,
     <<<<"h", "k", "s", "e", "a", "r", "o", "w", ";">>, <<10533>>>>,
     <<<<"h", "k", "s", "w", "a", "r", "o", "w", ";">>, <<10534>>>>,
     <<<<"h", "o", "a", "r", "r", ";">>, <<8703>>>>,
     <<<<"h", "o", "m", "t", "h", "t", ";">>, <<8763>>>>,
     <<<<"h", "o", "o", "k", "l", "e", "f", "t", "a", "r", "r", "o", "w", ";">>, <<8617>>>>,
     <<<<"h", "o", "o", "k", "r", "i", "g", "h", "t", "a", "r", "r", "o", "w", ";">>, <<8618>>>>,
     <<<<"h", "o", "p", "f", ";">>, <<120153>>>>,
     <<<<"h", "o", "r", "b", "a", "r", ";">>, <<8213>>>>,
     <<<<"h", "s", "c", "r", ";">>, <<119997>>>>,
     <<<<"h", "s", "l", "a", "s", "h", ";">>, <<8463>>>>,
     <<<<"h", "s", "t", "r", "o", "k", ";">>, <<295>>>>,
     <<<<"h", "y", "b", "u", "l", "l", ";">>, <<8259>>>>,
     <<<<"h", "y", "p", "h", "e", "n", ";">>, <<8208>>>>,
     <<<<"i", "a", "c", "u", "t", "e">>, <<237>>>>,
     <<<<"i", "a", "c", "u", "t", "e", ";">>, <<237>>>>,
     <<<<"i", "c", ";">>, <<8291>>>>,
     <<<<"i", "c", "i", "r", "c">>, <<238>>>>,
     <<<<"i", "c", "i", "r", "c", ";">>, <<238>>>>,
     <<<<"i", "c", "y", ";">>, <<1080>>>>,
     <<<<"i", "e", "c", "y", ";">>, <<1077>>>>,
     <<<<"i", "e", "x", "c", "l">>, <<161>>>>,
     <<<<"i", "e", "x", "c", "l", ";">>, <<161>>>>,
     <<<<"i", "f", "f", ";">>, <<8660>>>>,
     <<<<"i", "f", "r", ";">>, <<120102>>>>,
     <<<<"i", "g", "r", "a", "v", "e">>, <<236>>>>,
     <<<<"i", "g", "r", "a", "v", "e", ";">>, <<236>>>>,
     <<<<"i", "i", ";">>, <<8520>>>>,
     <<<<"i", "i", "i", "i", "n", "t", ";">>, <<10764>>>>,
     <<<<"i", "i", "i", "n", "t", ";">>, <<8749>>>>,
     <<<<"i", "i", "n", "f", "i", "n", ";">>, <<10716>>>>,
     <<<<"i", "i", "o", "t", "a", ";">>, <<8489>>>>,
     <<<<"i", "j", "l", "i", "g", ";">>, <<307>>>>,
     <<<<"i", "m", "a", "c", "r", ";">>, <<299>>>>,
     <<<<"i", "m", "a", "g", "e", ";">>, <<8465>>>>,
     <<<<"i", "m", "a", "g", "l", "i", "n", "e", ";">>, <<8464>>>>,
     <<<<"i", "m", "a", "g", "p", "a", "r", "t", ";">>, <<8465>>>>,
     <<<<"i", "m", "a", "t", "h", ";">>, <<305>>>>,
     <<<<"i", "m", "o", "f", ";">>, <<8887>>>>,
     <<<<"i", "m", "p", "e", "d", ";">>, <<437>>>>,
     <<<<"i", "n", ";">>, <<8712>>>>,
     <<<<"i", "n", "c", "a", "r", "e", ";">>, <<8453>>>>,
     <<<<"i", "n", "f", "i", "n", ";">>, <<8734>>>>,
     <<<<"i", "n", "f", "i", "n", "t", "i", "e", ";">>, <<10717>>>>,
     <<<<"i", "n", "o", "d", "o", "t", ";">>, <<305>>>>,
     <<<<"i", "n", "t", ";">>, <<8747>>>>,
     <<<<"i", "n", "t", "c", "a", "l", ";">>, <<8890>>>>,
     <<<<"i", "n", "t", "e", "g", "e", "r", "s", ";">>, <<8484>>>>,
     <<<<"i", "n", "t", "e", "r", "c", "a", "l", ";">>, <<8890>>>>,
     <<<<"i", "n", "t", "l", "a", "r", "h", "k", ";">>, <<10775>>>>,
     <<<<"i", "n", "t", "p", "r", "o", "d", ";">>, <<10812>>>>,
     <<<<"i", "o", "c", "y", ";">>, <<1105>>>>,
     <<<<"i", "o", "g", "o", "n", ";">>, <<303>>>>,
     <<<<"i", "o", "p", "f", ";">>, <<120154>>>>,
     <<<<"i", "o", "t", "a", ";">>, <<953>>>>,
     <<<<"i", "p", "r", "o", "d", ";">>, <<10812>>>>,
     <<<<"i", "q", "u", "e", "s", "t">>, <<191>>>>,
     <<<<"i", "q", "u", "e", "s", "t", ";">>, <<191>>>>,
     <<<<"i", "s", "c", "r", ";">>, <<119998>>>>,
     <<<<"i", "s", "i", "n", ";">>, <<8712>>>>,
     <<<<"i", "s", "i", "n", "E", ";">>, <<8953>>>>,
     <<<<"i", "s", "i", "n", "d", "o", "t", ";">>, <<8949>>>>,
     <<<<"i", "s", "i", "n", "s", ";">>, <<8948>>>>,
     <<<<"i", "s", "i", "n", "s", "v", ";">>, <<8947>>>>,
     <<<<"i", "s", "i", "n", "v", ";">>, <<8712>>>>,
     <<<<"i", "t", ";">>, <<8290>>>>,
     <<<<"i", "t", "i", "l", "d", "e", ";">>, <<297>>>>,
     <<<<"i", "u", "k", "c", "y", ";">>, <<1110>>>>,
     <<<<"i", "u", "m", "l">>, <<239>>>>,
     <<<<"i", "u", "m", "l", ";">>, <<239>>>>,
     <<<<"j", "c", "i", "r", "c", ";">>, <<309>>>>,
     <<<<"j", "c", "y", ";">>, <<1081>>>>,
     <<<<"j", "f", "r", ";">>, <<120103>>>>,
     <<<<"j", "m", "a", "t", "h", ";">>, <<567>>>>,
     <<<<"j", "o", "p", "f", ";">>, <<120155>>>>,
     <<<<"j", "s", "c", "r", ";">>, <<119999>>>>,
     <<<<"j", "s", "e", "r", "c", "y", ";">>, <<1112>>>>,
     <<<<"j", "u", "k", "c", "y", ";">>, <<1108>>>>,
     <<<<"k", "a", "p", "p", "a", ";">>, <<954>>>>,
     <<<<"k", "a", "p", "p", "a", "v", ";">>, <<1008>>>>,
     <<<<"k", "c", "e", "d", "i", "l", ";">>, <<311>>>>,
     <<<<"k", "c", "y", ";">>, <<1082>>>>,
     <<<<"k", "f", "r", ";">>, <<120104>>>>,
     <<<<"k", "g", "r", "e", "e", "n", ";">>, <<312>>>>,
     <<<<"k", "h", "c", "y", ";">>, <<1093>>>>,
     <<<<"k", "j", "c", "y", ";">>, <<1116>>>>,
     <<<<"k", "o", "p", "f", ";">>, <<120156>>>>,
     <<<<"k", "s", "c", "r", ";">>, <<120000>>>>,
     <<<<"l", "A", "a", "r", "r", ";">>, <<8666>>>>,
     <<<<"l", "A", "r", "r", ";">>, <<8656>>>>,
     <<<<"l", "A", "t", "a", "i", "l", ";">>, <<10523>>>>,
     <<<<"l", "B", "a", "r", "r", ";">>, <<10510>>>>,
     <<<<"l", "E", ";">>, <<8806>>>>,
     <<<<"l", "E", "g", ";">>, <<10891>>>>,
     <<<<"l", "H", "a", "r", ";">>, <<10594>>>>,
     <<<<"l", "a", "c", "u", "t", "e", ";">>, <<314>>>>,
     <<<<"l", "a", "e", "m", "p", "t", "y", "v", ";">>, <<10676>>>>,
     <<<<"l", "a", "g", "r", "a", "n", ";">>, <<8466>>>>,
     <<<<"l", "a", "m", "b", "d", "a", ";">>, <<955>>>>,
     <<<<"l", "a", "n", "g", ";">>, <<10216>>>>,
     <<<<"l", "a", "n", "g", "d", ";">>, <<10641>>>>,
     <<<<"l", "a", "n", "g", "l", "e", ";">>, <<10216>>>>,
     <<<<"l", "a", "p", ";">>, <<10885>>>>,
     <<<<"l", "a", "q", "u", "o">>, <<171>>>>,
     <<<<"l", "a", "q", "u", "o", ";">>, <<171>>>>,
     <<<<"l", "a", "r", "r", ";">>, <<8592>>>>,
     <<<<"l", "a", "r", "r", "b", ";">>, <<8676>>>>,
     <<<<"l", "a", "r", "r", "b", "f", "s", ";">>, <<10527>>>>,
     <<<<"l", "a", "r", "r", "f", "s", ";">>, <<10525>>>>,
     <<<<"l", "a", "r", "r", "h", "k", ";">>, <<8617>>>>,
     <<<<"l", "a", "r", "r", "l", "p", ";">>, <<8619>>>>,
     <<<<"l", "a", "r", "r", "p", "l", ";">>, <<10553>>>>,
     <<<<"l", "a", "r", "r", "s", "i", "m", ";">>, <<10611>>>>,
     <<<<"l", "a", "r", "r", "t", "l", ";">>, <<8610>>>>,
     <<<<"l", "a", "t", ";">>, <<10923>>>>,
     <<<<"l", "a", "t", "a", "i", "l", ";">>, <<10521>>>>,
     <<<<"l", "a", "t", "e", ";">>, <<10925>>>>,
     <<<<"l", "a", "t", "e", "s", ";">>, <<10925, 65024>>>>,
     <<<<"l", "b", "a", "r", "r", ";">>, <<10508>>>>,
     <<<<"l", "b", "b", "r", "k", ";">>, <<10098>>>>,
     <<<<"l", "b", "r", "a", "c", "e", ";">>, <<123>>>>,
     <<<<"l", "b", "r", "a", "c", "k", ";">>, <<91>>>>,
     <<<<"l", "b", "r", "k", "e", ";">>, <<10635>>>>,
     <<<<"l", "b", "r", "k", "s", "l", "d", ";">>, <<10639>>>>,
     <<<<"l", "b", "r", "k", "s", "l", "u", ";">>, <<10637>>>>,
     <<<<"l", "c", "a", "r", "o", "n", ";">>, <<318>>>>,
     <<<<"l", "c", "e", "d", "i", "l", ";">>, <<316>>>>,
     <<<<"l", "c", "e", "i", "l", ";">>, <<8968>>>>,
     <<<<"l", "c", "u", "b", ";">>, <<123>>>>,
     <<<<"l", "c", "y", ";">>, <<1083>>>>,
     <<<<"l", "d", "c", "a", ";">>, <<10550>>>>,
     <<<<"l", "d", "q", "u", "o", ";">>, <<8220>>>>,
     <<<<"l", "d", "q", "u", "o", "r", ";">>, <<8222>>>>,
     <<<<"l", "d", "r", "d", "h", "a", "r", ";">>, <<10599>>>>,
     <<<<"l", "d", "r", "u", "s", "h", "a", "r", ";">>, <<10571>>>>,
     <<<<"l", "d", "s", "h", ";">>, <<8626>>>>,
     <<<<"l", "e", ";">>, <<8804>>>>,
     <<<<"l", "e", "f", "t", "a", "r", "r", "o", "w", ";">>, <<8592>>>>,
     <<<<"l", "e", "f", "t", "a", "r", "r", "o", "w", "t", "a", "i", "l", ";">>, <<8610>>>>,
     <<<<"l", "e", "f", "t", "h", "a", "r", "p", "o", "o", "n", "d", "o", "w", "n", ";">>, <<8637>>>>,
     <<<<"l", "e", "f", "t", "h", "a", "r", "p", "o", "o", "n", "u", "p", ";">>, <<8636>>>>,
     <<<<"l", "e", "f", "t", "l", "e", "f", "t", "a", "r", "r", "o", "w", "s", ";">>, <<8647>>>>,
     <<<<"l", "e", "f", "t", "r", "i", "g", "h", "t", "a", "r", "r", "o", "w", ";">>, <<8596>>>>,
     <<<<"l", "e", "f", "t", "r", "i", "g", "h", "t", "a", "r", "r", "o", "w", "s", ";">>, <<8646>>>>,
     <<<<"l", "e", "f", "t", "r", "i", "g", "h", "t", "h", "a", "r", "p", "o", "o", "n", "s", ";">>, <<8651>>>>,
     <<<<"l", "e", "f", "t", "r", "i", "g", "h", "t", "s", "q", "u", "i", "g", "a", "r", "r", "o", "w", ";">>, <<8621>>>>,
     <<<<"l", "e", "f", "t", "t", "h", "r", "e", "e", "t", "i", "m", "e", "s", ";">>, <<8907>>>>,
     <<<<"l", "e", "g", ";">>, <<8922>>>>,
     <<<<"l", "e", "q", ";">>, <<8804>>>>,
     <<<<"l", "e", "q", "q", ";">>, <<8806>>>>,
     <<<<"l", "e", "q", "s", "l", "a", "n", "t", ";">>, <<10877>>>>,
     <<<<"l", "e", "s", ";">>, <<10877>>>>,
     <<<<"l", "e", "s", "c", "c", ";">>, <<10920>>>>,
     <<<<"l", "e", "s", "d", "o", "t", ";">>, <<10879>>>>,
     <<<<"l", "e", "s", "d", "o", "t", "o", ";">>, <<10881>>>>,
     <<<<"l", "e", "s", "d", "o", "t", "o", "r", ";">>, <<10883>>>>,
     <<<<"l", "e", "s", "g", ";">>, <<8922, 65024>>>>,
     <<<<"l", "e", "s", "g", "e", "s", ";">>, <<10899>>>>,
     <<<<"l", "e", "s", "s", "a", "p", "p", "r", "o", "x", ";">>, <<10885>>>>,
     <<<<"l", "e", "s", "s", "d", "o", "t", ";">>, <<8918>>>>,
     <<<<"l", "e", "s", "s", "e", "q", "g", "t", "r", ";">>, <<8922>>>>,
     <<<<"l", "e", "s", "s", "e", "q", "q", "g", "t", "r", ";">>, <<10891>>>>,
     <<<<"l", "e", "s", "s", "g", "t", "r", ";">>, <<8822>>>>,
     <<<<"l", "e", "s", "s", "s", "i", "m", ";">>, <<8818>>>>,
     <<<<"l", "f", "i", "s", "h", "t", ";">>, <<10620>>>>,
     <<<<"l", "f", "l", "o", "o", "r", ";">>, <<8970>>>>,
     <<<<"l", "f", "r", ";">>, <<120105>>>>,
     <<<<"l", "g", ";">>, <<8822>>>>,
     <<<<"l", "g", "E", ";">>, <<10897>>>>,
     <<<<"l", "h", "a", "r", "d", ";">>, <<8637>>>>,
     <<<<"l", "h", "a", "r", "u", ";">>, <<8636>>>>,
     <<<<"l", "h", "a", "r", "u", "l", ";">>, <<10602>>>>,
     <<<<"l", "h", "b", "l", "k", ";">>, <<9604>>>>,
     <<<<"l", "j", "c", "y", ";">>, <<1113>>>>,
     <<<<"l", "l", ";">>, <<8810>>>>,
     <<<<"l", "l", "a", "r", "r", ";">>, <<8647>>>>,
     <<<<"l", "l", "c", "o", "r", "n", "e", "r", ";">>, <<8990>>>>,
     <<<<"l", "l", "h", "a", "r", "d", ";">>, <<10603>>>>,
     <<<<"l", "l", "t", "r", "i", ";">>, <<9722>>>>,
     <<<<"l", "m", "i", "d", "o", "t", ";">>, <<320>>>>,
     <<<<"l", "m", "o", "u", "s", "t", ";">>, <<9136>>>>,
     <<<<"l", "m", "o", "u", "s", "t", "a", "c", "h", "e", ";">>, <<9136>>>>,
     <<<<"l", "n", "E", ";">>, <<8808>>>>,
     <<<<"l", "n", "a", "p", ";">>, <<10889>>>>,
     <<<<"l", "n", "a", "p", "p", "r", "o", "x", ";">>, <<10889>>>>,
     <<<<"l", "n", "e", ";">>, <<10887>>>>,
     <<<<"l", "n", "e", "q", ";">>, <<10887>>>>,
     <<<<"l", "n", "e", "q", "q", ";">>, <<8808>>>>,
     <<<<"l", "n", "s", "i", "m", ";">>, <<8934>>>>,
     <<<<"l", "o", "a", "n", "g", ";">>, <<10220>>>>,
     <<<<"l", "o", "a", "r", "r", ";">>, <<8701>>>>,
     <<<<"l", "o", "b", "r", "k", ";">>, <<10214>>>>,
     <<<<"l", "o", "n", "g", "l", "e", "f", "t", "a", "r", "r", "o", "w", ";">>, <<10229>>>>,
     <<<<"l", "o", "n", "g", "l", "e", "f", "t", "r", "i", "g", "h", "t", "a", "r", "r", "o", "w", ";">>, <<10231>>>>,
     <<<<"l", "o", "n", "g", "m", "a", "p", "s", "t", "o", ";">>, <<10236>>>>,
     <<<<"l", "o", "n", "g", "r", "i", "g", "h", "t", "a", "r", "r", "o", "w", ";">>, <<10230>>>>,
     <<<<"l", "o", "o", "p", "a", "r", "r", "o", "w", "l", "e", "f", "t", ";">>, <<8619>>>>,
     <<<<"l", "o", "o", "p", "a", "r", "r", "o", "w", "r", "i", "g", "h", "t", ";">>, <<8620>>>>,
     <<<<"l", "o", "p", "a", "r", ";">>, <<10629>>>>,
     <<<<"l", "o", "p", "f", ";">>, <<120157>>>>,
     <<<<"l", "o", "p", "l", "u", "s", ";">>, <<10797>>>>,
     <<<<"l", "o", "t", "i", "m", "e", "s", ";">>, <<10804>>>>,
     <<<<"l", "o", "w", "a", "s", "t", ";">>, <<8727>>>>,
     <<<<"l", "o", "w", "b", "a", "r", ";">>, <<95>>>>,
     <<<<"l", "o", "z", ";">>, <<9674>>>>,
     <<<<"l", "o", "z", "e", "n", "g", "e", ";">>, <<9674>>>>,
     <<<<"l", "o", "z", "f", ";">>, <<10731>>>>,
     <<<<"l", "p", "a", "r", ";">>, <<40>>>>,
     <<<<"l", "p", "a", "r", "l", "t", ";">>, <<10643>>>>,
     <<<<"l", "r", "a", "r", "r", ";">>, <<8646>>>>,
     <<<<"l", "r", "c", "o", "r", "n", "e", "r", ";">>, <<8991>>>>,
     <<<<"l", "r", "h", "a", "r", ";">>, <<8651>>>>,
     <<<<"l", "r", "h", "a", "r", "d", ";">>, <<10605>>>>,
     <<<<"l", "r", "m", ";">>, <<8206>>>>,
     <<<<"l", "r", "t", "r", "i", ";">>, <<8895>>>>,
     <<<<"l", "s", "a", "q", "u", "o", ";">>, <<8249>>>>,
     <<<<"l", "s", "c", "r", ";">>, <<120001>>>>,
     <<<<"l", "s", "h", ";">>, <<8624>>>>,
     <<<<"l", "s", "i", "m", ";">>, <<8818>>>>,
     <<<<"l", "s", "i", "m", "e", ";">>, <<10893>>>>,
     <<<<"l", "s", "i", "m", "g", ";">>, <<10895>>>>,
     <<<<"l", "s", "q", "b", ";">>, <<91>>>>,
     <<<<"l", "s", "q", "u", "o", ";">>, <<8216>>>>,
     <<<<"l", "s", "q", "u", "o", "r", ";">>, <<8218>>>>,
     <<<<"l", "s", "t", "r", "o", "k", ";">>, <<322>>>>,
     <<<<"l", "t">>, <<60>>>>,
     <<<<"l", "t", ";">>, <<60>>>>,
     <<<<"l", "t", "c", "c", ";">>, <<10918>>>>,
     <<<<"l", "t", "c", "i", "r", ";">>, <<10873>>>>,
     <<<<"l", "t", "d", "o", "t", ";">>, <<8918>>>>,
     <<<<"l", "t", "h", "r", "e", "e", ";">>, <<8907>>>>,
     <<<<"l", "t", "i", "m", "e", "s", ";">>, <<8905>>>>,
     <<<<"l", "t", "l", "a", "r", "r", ";">>, <<10614>>>>,
     <<<<"l", "t", "q", "u", "e", "s", "t", ";">>, <<10875>>>>,
     <<<<"l", "t", "r", "P", "a", "r", ";">>, <<10646>>>>,
     <<<<"l", "t", "r", "i", ";">>, <<9667>>>>,
     <<<<"l", "t", "r", "i", "e", ";">>, <<8884>>>>,
     <<<<"l", "t", "r", "i", "f", ";">>, <<9666>>>>,
     <<<<"l", "u", "r", "d", "s", "h", "a", "r", ";">>, <<10570>>>>,
     <<<<"l", "u", "r", "u", "h", "a", "r", ";">>, <<10598>>>>,
     <<<<"l", "v", "e", "r", "t", "n", "e", "q", "q", ";">>, <<8808, 65024>>>>,
     <<<<"l", "v", "n", "E", ";">>, <<8808, 65024>>>>,
     <<<<"m", "D", "D", "o", "t", ";">>, <<8762>>>>,
     <<<<"m", "a", "c", "r">>, <<175>>>>,
     <<<<"m", "a", "c", "r", ";">>, <<175>>>>,
     <<<<"m", "a", "l", "e", ";">>, <<9794>>>>,
     <<<<"m", "a", "l", "t", ";">>, <<10016>>>>,
     <<<<"m", "a", "l", "t", "e", "s", "e", ";">>, <<10016>>>>,
     <<<<"m", "a", "p", ";">>, <<8614>>>>,
     <<<<"m", "a", "p", "s", "t", "o", ";">>, <<8614>>>>,
     <<<<"m", "a", "p", "s", "t", "o", "d", "o", "w", "n", ";">>, <<8615>>>>,
     <<<<"m", "a", "p", "s", "t", "o", "l", "e", "f", "t", ";">>, <<8612>>>>,
     <<<<"m", "a", "p", "s", "t", "o", "u", "p", ";">>, <<8613>>>>,
     <<<<"m", "a", "r", "k", "e", "r", ";">>, <<9646>>>>,
     <<<<"m", "c", "o", "m", "m", "a", ";">>, <<10793>>>>,
     <<<<"m", "c", "y", ";">>, <<1084>>>>,
     <<<<"m", "d", "a", "s", "h", ";">>, <<8212>>>>,
     <<<<"m", "e", "a", "s", "u", "r", "e", "d", "a", "n", "g", "l", "e", ";">>, <<8737>>>>,
     <<<<"m", "f", "r", ";">>, <<120106>>>>,
     <<<<"m", "h", "o", ";">>, <<8487>>>>,
     <<<<"m", "i", "c", "r", "o">>, <<181>>>>,
     <<<<"m", "i", "c", "r", "o", ";">>, <<181>>>>,
     <<<<"m", "i", "d", ";">>, <<8739>>>>,
     <<<<"m", "i", "d", "a", "s", "t", ";">>, <<42>>>>,
     <<<<"m", "i", "d", "c", "i", "r", ";">>, <<10992>>>>,
     <<<<"m", "i", "d", "d", "o", "t">>, <<183>>>>,
     <<<<"m", "i", "d", "d", "o", "t", ";">>, <<183>>>>,
     <<<<"m", "i", "n", "u", "s", ";">>, <<8722>>>>,
     <<<<"m", "i", "n", "u", "s", "b", ";">>, <<8863>>>>,
     <<<<"m", "i", "n", "u", "s", "d", ";">>, <<8760>>>>,
     <<<<"m", "i", "n", "u", "s", "d", "u", ";">>, <<10794>>>>,
     <<<<"m", "l", "c", "p", ";">>, <<10971>>>>,
     <<<<"m", "l", "d", "r", ";">>, <<8230>>>>,
     <<<<"m", "n", "p", "l", "u", "s", ";">>, <<8723>>>>,
     <<<<"m", "o", "d", "e", "l", "s", ";">>, <<8871>>>>,
     <<<<"m", "o", "p", "f", ";">>, <<120158>>>>,
     <<<<"m", "p", ";">>, <<8723>>>>,
     <<<<"m", "s", "c", "r", ";">>, <<120002>>>>,
     <<<<"m", "s", "t", "p", "o", "s", ";">>, <<8766>>>>,
     <<<<"m", "u", ";">>, <<956>>>>,
     <<<<"m", "u", "l", "t", "i", "m", "a", "p", ";">>, <<8888>>>>,
     <<<<"m", "u", "m", "a", "p", ";">>, <<8888>>>>,
     <<<<"n", "G", "g", ";">>, <<8921, 824>>>>,
     <<<<"n", "G", "t", ";">>, <<8811, 8402>>>>,
     <<<<"n", "G", "t", "v", ";">>, <<8811, 824>>>>,
     <<<<"n", "L", "e", "f", "t", "a", "r", "r", "o", "w", ";">>, <<8653>>>>,
     <<<<"n", "L", "e", "f", "t", "r", "i", "g", "h", "t", "a", "r", "r", "o", "w", ";">>, <<8654>>>>,
     <<<<"n", "L", "l", ";">>, <<8920, 824>>>>,
     <<<<"n", "L", "t", ";">>, <<8810, 8402>>>>,
     <<<<"n", "L", "t", "v", ";">>, <<8810, 824>>>>,
     <<<<"n", "R", "i", "g", "h", "t", "a", "r", "r", "o", "w", ";">>, <<8655>>>>,
     <<<<"n", "V", "D", "a", "s", "h", ";">>, <<8879>>>>,
     <<<<"n", "V", "d", "a", "s", "h", ";">>, <<8878>>>>,
     <<<<"n", "a", "b", "l", "a", ";">>, <<8711>>>>,
     <<<<"n", "a", "c", "u", "t", "e", ";">>, <<324>>>>,
     <<<<"n", "a", "n", "g", ";">>, <<8736, 8402>>>>,
     <<<<"n", "a", "p", ";">>, <<8777>>>>,
     <<<<"n", "a", "p", "E", ";">>, <<10864, 824>>>>,
     <<<<"n", "a", "p", "i", "d", ";">>, <<8779, 824>>>>,
     <<<<"n", "a", "p", "o", "s", ";">>, <<329>>>>,
     <<<<"n", "a", "p", "p", "r", "o", "x", ";">>, <<8777>>>>,
     <<<<"n", "a", "t", "u", "r", ";">>, <<9838>>>>,
     <<<<"n", "a", "t", "u", "r", "a", "l", ";">>, <<9838>>>>,
     <<<<"n", "a", "t", "u", "r", "a", "l", "s", ";">>, <<8469>>>>,
     <<<<"n", "b", "s", "p">>, <<160>>>>,
     <<<<"n", "b", "s", "p", ";">>, <<160>>>>,
     <<<<"n", "b", "u", "m", "p", ";">>, <<8782, 824>>>>,
     <<<<"n", "b", "u", "m", "p", "e", ";">>, <<8783, 824>>>>,
     <<<<"n", "c", "a", "p", ";">>, <<10819>>>>,
     <<<<"n", "c", "a", "r", "o", "n", ";">>, <<328>>>>,
     <<<<"n", "c", "e", "d", "i", "l", ";">>, <<326>>>>,
     <<<<"n", "c", "o", "n", "g", ";">>, <<8775>>>>,
     <<<<"n", "c", "o", "n", "g", "d", "o", "t", ";">>, <<10861, 824>>>>,
     <<<<"n", "c", "u", "p", ";">>, <<10818>>>>,
     <<<<"n", "c", "y", ";">>, <<1085>>>>,
     <<<<"n", "d", "a", "s", "h", ";">>, <<8211>>>>,
     <<<<"n", "e", ";">>, <<8800>>>>,
     <<<<"n", "e", "A", "r", "r", ";">>, <<8663>>>>,
     <<<<"n", "e", "a", "r", "h", "k", ";">>, <<10532>>>>,
     <<<<"n", "e", "a", "r", "r", ";">>, <<8599>>>>,
     <<<<"n", "e", "a", "r", "r", "o", "w", ";">>, <<8599>>>>,
     <<<<"n", "e", "d", "o", "t", ";">>, <<8784, 824>>>>,
     <<<<"n", "e", "q", "u", "i", "v", ";">>, <<8802>>>>,
     <<<<"n", "e", "s", "e", "a", "r", ";">>, <<10536>>>>,
     <<<<"n", "e", "s", "i", "m", ";">>, <<8770, 824>>>>,
     <<<<"n", "e", "x", "i", "s", "t", ";">>, <<8708>>>>,
     <<<<"n", "e", "x", "i", "s", "t", "s", ";">>, <<8708>>>>,
     <<<<"n", "f", "r", ";">>, <<120107>>>>,
     <<<<"n", "g", "E", ";">>, <<8807, 824>>>>,
     <<<<"n", "g", "e", ";">>, <<8817>>>>,
     <<<<"n", "g", "e", "q", ";">>, <<8817>>>>,
     <<<<"n", "g", "e", "q", "q", ";">>, <<8807, 824>>>>,
     <<<<"n", "g", "e", "q", "s", "l", "a", "n", "t", ";">>, <<10878, 824>>>>,
     <<<<"n", "g", "e", "s", ";">>, <<10878, 824>>>>,
     <<<<"n", "g", "s", "i", "m", ";">>, <<8821>>>>,
     <<<<"n", "g", "t", ";">>, <<8815>>>>,
     <<<<"n", "g", "t", "r", ";">>, <<8815>>>>,
     <<<<"n", "h", "A", "r", "r", ";">>, <<8654>>>>,
     <<<<"n", "h", "a", "r", "r", ";">>, <<8622>>>>,
     <<<<"n", "h", "p", "a", "r", ";">>, <<10994>>>>,
     <<<<"n", "i", ";">>, <<8715>>>>,
     <<<<"n", "i", "s", ";">>, <<8956>>>>,
     <<<<"n", "i", "s", "d", ";">>, <<8954>>>>,
     <<<<"n", "i", "v", ";">>, <<8715>>>>,
     <<<<"n", "j", "c", "y", ";">>, <<1114>>>>,
     <<<<"n", "l", "A", "r", "r", ";">>, <<8653>>>>,
     <<<<"n", "l", "E", ";">>, <<8806, 824>>>>,
     <<<<"n", "l", "a", "r", "r", ";">>, <<8602>>>>,
     <<<<"n", "l", "d", "r", ";">>, <<8229>>>>,
     <<<<"n", "l", "e", ";">>, <<8816>>>>,
     <<<<"n", "l", "e", "f", "t", "a", "r", "r", "o", "w", ";">>, <<8602>>>>,
     <<<<"n", "l", "e", "f", "t", "r", "i", "g", "h", "t", "a", "r", "r", "o", "w", ";">>, <<8622>>>>,
     <<<<"n", "l", "e", "q", ";">>, <<8816>>>>,
     <<<<"n", "l", "e", "q", "q", ";">>, <<8806, 824>>>>,
     <<<<"n", "l", "e", "q", "s", "l", "a", "n", "t", ";">>, <<10877, 824>>>>,
     <<<<"n", "l", "e", "s", ";">>, <<10877, 824>>>>,
     <<<<"n", "l", "e", "s", "s", ";">>, <<8814>>>>,
     <<<<"n", "l", "s", "i", "m", ";">>, <<8820>>>>,
     <<<<"n", "l", "t", ";">>, <<8814>>>>,
     <<<<"n", "l", "t", "r", "i", ";">>, <<8938>>>>,
     <<<<"n", "l", "t", "r", "i", "e", ";">>, <<8940>>>>,
     <<<<"n", "m", "i", "d", ";">>, <<8740>>>>,
     <<<<"n", "o", "p", "f", ";">>, <<120159>>>>,
     <<<<"n", "o", "t">>, <<172>>>>,
     <<<<"n", "o", "t", ";">>, <<172>>>>,
     <<<<"n", "o", "t", "i", "n", ";">>, <<8713>>>>,
     <<<<"n", "o", "t", "i", "n", "E", ";">>, <<8953, 824>>>>,
     <<<<"n", "o", "t", "i", "n", "d", "o", "t", ";">>, <<8949, 824>>>>,
     <<<<"n", "o", "t", "i", "n", "v", "a", ";">>, <<8713>>>>,
     <<<<"n", "o", "t", "i", "n", "v", "b", ";">>, <<8951>>>>,
     <<<<"n", "o", "t", "i", "n", "v", "c", ";">>, <<8950>>>>,
     <<<<"n", "o", "t", "n", "i", ";">>, <<8716>>>>,
     <<<<"n", "o", "t", "n", "i", "v", "a", ";">>, <<8716>>>>,
     <<<<"n", "o", "t", "n", "i", "v", "b", ";">>, <<8958>>>>,
     <<<<"n", "o", "t", "n", "i", "v", "c", ";">>, <<8957>>>>,
     <<<<"n", "p", "a", "r", ";">>, <<8742>>>>,
     <<<<"n", "p", "a", "r", "a", "l", "l", "e", "l", ";">>, <<8742>>>>,
     <<<<"n", "p", "a", "r", "s", "l", ";">>, <<11005, 8421>>>>,
     <<<<"n", "p", "a", "r", "t", ";">>, <<8706, 824>>>>,
     <<<<"n", "p", "o", "l", "i", "n", "t", ";">>, <<10772>>>>,
     <<<<"n", "p", "r", ";">>, <<8832>>>>,
     <<<<"n", "p", "r", "c", "u", "e", ";">>, <<8928>>>>,
     <<<<"n", "p", "r", "e", ";">>, <<10927, 824>>>>,
     <<<<"n", "p", "r", "e", "c", ";">>, <<8832>>>>,
     <<<<"n", "p", "r", "e", "c", "e", "q", ";">>, <<10927, 824>>>>,
     <<<<"n", "r", "A", "r", "r", ";">>, <<8655>>>>,
     <<<<"n", "r", "a", "r", "r", ";">>, <<8603>>>>,
     <<<<"n", "r", "a", "r", "r", "c", ";">>, <<10547, 824>>>>,
     <<<<"n", "r", "a", "r", "r", "w", ";">>, <<8605, 824>>>>,
     <<<<"n", "r", "i", "g", "h", "t", "a", "r", "r", "o", "w", ";">>, <<8603>>>>,
     <<<<"n", "r", "t", "r", "i", ";">>, <<8939>>>>,
     <<<<"n", "r", "t", "r", "i", "e", ";">>, <<8941>>>>,
     <<<<"n", "s", "c", ";">>, <<8833>>>>,
     <<<<"n", "s", "c", "c", "u", "e", ";">>, <<8929>>>>,
     <<<<"n", "s", "c", "e", ";">>, <<10928, 824>>>>,
     <<<<"n", "s", "c", "r", ";">>, <<120003>>>>,
     <<<<"n", "s", "h", "o", "r", "t", "m", "i", "d", ";">>, <<8740>>>>,
     <<<<"n", "s", "h", "o", "r", "t", "p", "a", "r", "a", "l", "l", "e", "l", ";">>, <<8742>>>>,
     <<<<"n", "s", "i", "m", ";">>, <<8769>>>>,
     <<<<"n", "s", "i", "m", "e", ";">>, <<8772>>>>,
     <<<<"n", "s", "i", "m", "e", "q", ";">>, <<8772>>>>,
     <<<<"n", "s", "m", "i", "d", ";">>, <<8740>>>>,
     <<<<"n", "s", "p", "a", "r", ";">>, <<8742>>>>,
     <<<<"n", "s", "q", "s", "u", "b", "e", ";">>, <<8930>>>>,
     <<<<"n", "s", "q", "s", "u", "p", "e", ";">>, <<8931>>>>,
     <<<<"n", "s", "u", "b", ";">>, <<8836>>>>,
     <<<<"n", "s", "u", "b", "E", ";">>, <<10949, 824>>>>,
     <<<<"n", "s", "u", "b", "e", ";">>, <<8840>>>>,
     <<<<"n", "s", "u", "b", "s", "e", "t", ";">>, <<8834, 8402>>>>,
     <<<<"n", "s", "u", "b", "s", "e", "t", "e", "q", ";">>, <<8840>>>>,
     <<<<"n", "s", "u", "b", "s", "e", "t", "e", "q", "q", ";">>, <<10949, 824>>>>,
     <<<<"n", "s", "u", "c", "c", ";">>, <<8833>>>>,
     <<<<"n", "s", "u", "c", "c", "e", "q", ";">>, <<10928, 824>>>>,
     <<<<"n", "s", "u", "p", ";">>, <<8837>>>>,
     <<<<"n", "s", "u", "p", "E", ";">>, <<10950, 824>>>>,
     <<<<"n", "s", "u", "p", "e", ";">>, <<8841>>>>,
     <<<<"n", "s", "u", "p", "s", "e", "t", ";">>, <<8835, 8402>>>>,
     <<<<"n", "s", "u", "p", "s", "e", "t", "e", "q", ";">>, <<8841>>>>,
     <<<<"n", "s", "u", "p", "s", "e", "t", "e", "q", "q", ";">>, <<10950, 824>>>>,
     <<<<"n", "t", "g", "l", ";">>, <<8825>>>>,
     <<<<"n", "t", "i", "l", "d", "e">>, <<241>>>>,
     <<<<"n", "t", "i", "l", "d", "e", ";">>, <<241>>>>,
     <<<<"n", "t", "l", "g", ";">>, <<8824>>>>,
     <<<<"n", "t", "r", "i", "a", "n", "g", "l", "e", "l", "e", "f", "t", ";">>, <<8938>>>>,
     <<<<"n", "t", "r", "i", "a", "n", "g", "l", "e", "l", "e", "f", "t", "e", "q", ";">>, <<8940>>>>,
     <<<<"n", "t", "r", "i", "a", "n", "g", "l", "e", "r", "i", "g", "h", "t", ";">>, <<8939>>>>,
     <<<<"n", "t", "r", "i", "a", "n", "g", "l", "e", "r", "i", "g", "h", "t", "e", "q", ";">>, <<8941>>>>,
     <<<<"n", "u", ";">>, <<957>>>>,
     <<<<"n", "u", "m", ";">>, <<35>>>>,
     <<<<"n", "u", "m", "e", "r", "o", ";">>, <<8470>>>>,
     <<<<"n", "u", "m", "s", "p", ";">>, <<8199>>>>,
     <<<<"n", "v", "D", "a", "s", "h", ";">>, <<8877>>>>,
     <<<<"n", "v", "H", "a", "r", "r", ";">>, <<10500>>>>,
     <<<<"n", "v", "a", "p", ";">>, <<8781, 8402>>>>,
     <<<<"n", "v", "d", "a", "s", "h", ";">>, <<8876>>>>,
     <<<<"n", "v", "g", "e", ";">>, <<8805, 8402>>>>,
     <<<<"n", "v", "g", "t", ";">>, <<62, 8402>>>>,
     <<<<"n", "v", "i", "n", "f", "i", "n", ";">>, <<10718>>>>,
     <<<<"n", "v", "l", "A", "r", "r", ";">>, <<10498>>>>,
     <<<<"n", "v", "l", "e", ";">>, <<8804, 8402>>>>,
     <<<<"n", "v", "l", "t", ";">>, <<60, 8402>>>>,
     <<<<"n", "v", "l", "t", "r", "i", "e", ";">>, <<8884, 8402>>>>,
     <<<<"n", "v", "r", "A", "r", "r", ";">>, <<10499>>>>,
     <<<<"n", "v", "r", "t", "r", "i", "e", ";">>, <<8885, 8402>>>>,
     <<<<"n", "v", "s", "i", "m", ";">>, <<8764, 8402>>>>,
     <<<<"n", "w", "A", "r", "r", ";">>, <<8662>>>>,
     <<<<"n", "w", "a", "r", "h", "k", ";">>, <<10531>>>>,
     <<<<"n", "w", "a", "r", "r", ";">>, <<8598>>>>,
     <<<<"n", "w", "a", "r", "r", "o", "w", ";">>, <<8598>>>>,
     <<<<"n", "w", "n", "e", "a", "r", ";">>, <<10535>>>>,
     <<<<"o", "S", ";">>, <<9416>>>>,
     <<<<"o", "a", "c", "u", "t", "e">>, <<243>>>>,
     <<<<"o", "a", "c", "u", "t", "e", ";">>, <<243>>>>,
     <<<<"o", "a", "s", "t", ";">>, <<8859>>>>,
     <<<<"o", "c", "i", "r", ";">>, <<8858>>>>,
     <<<<"o", "c", "i", "r", "c">>, <<244>>>>,
     <<<<"o", "c", "i", "r", "c", ";">>, <<244>>>>,
     <<<<"o", "c", "y", ";">>, <<1086>>>>,
     <<<<"o", "d", "a", "s", "h", ";">>, <<8861>>>>,
     <<<<"o", "d", "b", "l", "a", "c", ";">>, <<337>>>>,
     <<<<"o", "d", "i", "v", ";">>, <<10808>>>>,
     <<<<"o", "d", "o", "t", ";">>, <<8857>>>>,
     <<<<"o", "d", "s", "o", "l", "d", ";">>, <<10684>>>>,
     <<<<"o", "e", "l", "i", "g", ";">>, <<339>>>>,
     <<<<"o", "f", "c", "i", "r", ";">>, <<10687>>>>,
     <<<<"o", "f", "r", ";">>, <<120108>>>>,
     <<<<"o", "g", "o", "n", ";">>, <<731>>>>,
     <<<<"o", "g", "r", "a", "v", "e">>, <<242>>>>,
     <<<<"o", "g", "r", "a", "v", "e", ";">>, <<242>>>>,
     <<<<"o", "g", "t", ";">>, <<10689>>>>,
     <<<<"o", "h", "b", "a", "r", ";">>, <<10677>>>>,
     <<<<"o", "h", "m", ";">>, <<937>>>>,
     <<<<"o", "i", "n", "t", ";">>, <<8750>>>>,
     <<<<"o", "l", "a", "r", "r", ";">>, <<8634>>>>,
     <<<<"o", "l", "c", "i", "r", ";">>, <<10686>>>>,
     <<<<"o", "l", "c", "r", "o", "s", "s", ";">>, <<10683>>>>,
     <<<<"o", "l", "i", "n", "e", ";">>, <<8254>>>>,
     <<<<"o", "l", "t", ";">>, <<10688>>>>,
     <<<<"o", "m", "a", "c", "r", ";">>, <<333>>>>,
     <<<<"o", "m", "e", "g", "a", ";">>, <<969>>>>,
     <<<<"o", "m", "i", "c", "r", "o", "n", ";">>, <<959>>>>,
     <<<<"o", "m", "i", "d", ";">>, <<10678>>>>,
     <<<<"o", "m", "i", "n", "u", "s", ";">>, <<8854>>>>,
     <<<<"o", "o", "p", "f", ";">>, <<120160>>>>,
     <<<<"o", "p", "a", "r", ";">>, <<10679>>>>,
     <<<<"o", "p", "e", "r", "p", ";">>, <<10681>>>>,
     <<<<"o", "p", "l", "u", "s", ";">>, <<8853>>>>,
     <<<<"o", "r", ";">>, <<8744>>>>,
     <<<<"o", "r", "a", "r", "r", ";">>, <<8635>>>>,
     <<<<"o", "r", "d", ";">>, <<10845>>>>,
     <<<<"o", "r", "d", "e", "r", ";">>, <<8500>>>>,
     <<<<"o", "r", "d", "e", "r", "o", "f", ";">>, <<8500>>>>,
     <<<<"o", "r", "d", "f">>, <<170>>>>,
     <<<<"o", "r", "d", "f", ";">>, <<170>>>>,
     <<<<"o", "r", "d", "m">>, <<186>>>>,
     <<<<"o", "r", "d", "m", ";">>, <<186>>>>,
     <<<<"o", "r", "i", "g", "o", "f", ";">>, <<8886>>>>,
     <<<<"o", "r", "o", "r", ";">>, <<10838>>>>,
     <<<<"o", "r", "s", "l", "o", "p", "e", ";">>, <<10839>>>>,
     <<<<"o", "r", "v", ";">>, <<10843>>>>,
     <<<<"o", "s", "c", "r", ";">>, <<8500>>>>,
     <<<<"o", "s", "l", "a", "s", "h">>, <<248>>>>,
     <<<<"o", "s", "l", "a", "s", "h", ";">>, <<248>>>>,
     <<<<"o", "s", "o", "l", ";">>, <<8856>>>>,
     <<<<"o", "t", "i", "l", "d", "e">>, <<245>>>>,
     <<<<"o", "t", "i", "l", "d", "e", ";">>, <<245>>>>,
     <<<<"o", "t", "i", "m", "e", "s", ";">>, <<8855>>>>,
     <<<<"o", "t", "i", "m", "e", "s", "a", "s", ";">>, <<10806>>>>,
     <<<<"o", "u", "m", "l">>, <<246>>>>,
     <<<<"o", "u", "m", "l", ";">>, <<246>>>>,
     <<<<"o", "v", "b", "a", "r", ";">>, <<9021>>>>,
     <<<<"p", "a", "r", ";">>, <<8741>>>>,
     <<<<"p", "a", "r", "a">>, <<182>>>>,
     <<<<"p", "a", "r", "a", ";">>, <<182>>>>,
     <<<<"p", "a", "r", "a", "l", "l", "e", "l", ";">>, <<8741>>>>,
     <<<<"p", "a", "r", "s", "i", "m", ";">>, <<10995>>>>,
     <<<<"p", "a", "r", "s", "l", ";">>, <<11005>>>>,
     <<<<"p", "a", "r", "t", ";">>, <<8706>>>>,
     <<<<"p", "c", "y", ";">>, <<1087>>>>,
     <<<<"p", "e", "r", "c", "n", "t", ";">>, <<37>>>>,
     <<<<"p", "e", "r", "i", "o", "d", ";">>, <<46>>>>,
     <<<<"p", "e", "r", "m", "i", "l", ";">>, <<8240>>>>,
     <<<<"p", "e", "r", "p", ";">>, <<8869>>>>,
     <<<<"p", "e", "r", "t", "e", "n", "k", ";">>, <<8241>>>>,
     <<<<"p", "f", "r", ";">>, <<120109>>>>,
     <<<<"p", "h", "i", ";">>, <<966>>>>,
     <<<<"p", "h", "i", "v", ";">>, <<981>>>>,
     <<<<"p", "h", "m", "m", "a", "t", ";">>, <<8499>>>>,
     <<<<"p", "h", "o", "n", "e", ";">>, <<9742>>>>,
     <<<<"p", "i", ";">>, <<960>>>>,
     <<<<"p", "i", "t", "c", "h", "f", "o", "r", "k", ";">>, <<8916>>>>,
     <<<<"p", "i", "v", ";">>, <<982>>>>,
     <<<<"p", "l", "a", "n", "c", "k", ";">>, <<8463>>>>,
     <<<<"p", "l", "a", "n", "c", "k", "h", ";">>, <<8462>>>>,
     <<<<"p", "l", "a", "n", "k", "v", ";">>, <<8463>>>>,
     <<<<"p", "l", "u", "s", ";">>, <<43>>>>,
     <<<<"p", "l", "u", "s", "a", "c", "i", "r", ";">>, <<10787>>>>,
     <<<<"p", "l", "u", "s", "b", ";">>, <<8862>>>>,
     <<<<"p", "l", "u", "s", "c", "i", "r", ";">>, <<10786>>>>,
     <<<<"p", "l", "u", "s", "d", "o", ";">>, <<8724>>>>,
     <<<<"p", "l", "u", "s", "d", "u", ";">>, <<10789>>>>,
     <<<<"p", "l", "u", "s", "e", ";">>, <<10866>>>>,
     <<<<"p", "l", "u", "s", "m", "n">>, <<177>>>>,
     <<<<"p", "l", "u", "s", "m", "n", ";">>, <<177>>>>,
     <<<<"p", "l", "u", "s", "s", "i", "m", ";">>, <<10790>>>>,
     <<<<"p", "l", "u", "s", "t", "w", "o", ";">>, <<10791>>>>,
     <<<<"p", "m", ";">>, <<177>>>>,
     <<<<"p", "o", "i", "n", "t", "i", "n", "t", ";">>, <<10773>>>>,
     <<<<"p", "o", "p", "f", ";">>, <<120161>>>>,
     <<<<"p", "o", "u", "n", "d">>, <<163>>>>,
     <<<<"p", "o", "u", "n", "d", ";">>, <<163>>>>,
     <<<<"p", "r", ";">>, <<8826>>>>,
     <<<<"p", "r", "E", ";">>, <<10931>>>>,
     <<<<"p", "r", "a", "p", ";">>, <<10935>>>>,
     <<<<"p", "r", "c", "u", "e", ";">>, <<8828>>>>,
     <<<<"p", "r", "e", ";">>, <<10927>>>>,
     <<<<"p", "r", "e", "c", ";">>, <<8826>>>>,
     <<<<"p", "r", "e", "c", "a", "p", "p", "r", "o", "x", ";">>, <<10935>>>>,
     <<<<"p", "r", "e", "c", "c", "u", "r", "l", "y", "e", "q", ";">>, <<8828>>>>,
     <<<<"p", "r", "e", "c", "e", "q", ";">>, <<10927>>>>,
     <<<<"p", "r", "e", "c", "n", "a", "p", "p", "r", "o", "x", ";">>, <<10937>>>>,
     <<<<"p", "r", "e", "c", "n", "e", "q", "q", ";">>, <<10933>>>>,
     <<<<"p", "r", "e", "c", "n", "s", "i", "m", ";">>, <<8936>>>>,
     <<<<"p", "r", "e", "c", "s", "i", "m", ";">>, <<8830>>>>,
     <<<<"p", "r", "i", "m", "e", ";">>, <<8242>>>>,
     <<<<"p", "r", "i", "m", "e", "s", ";">>, <<8473>>>>,
     <<<<"p", "r", "n", "E", ";">>, <<10933>>>>,
     <<<<"p", "r", "n", "a", "p", ";">>, <<10937>>>>,
     <<<<"p", "r", "n", "s", "i", "m", ";">>, <<8936>>>>,
     <<<<"p", "r", "o", "d", ";">>, <<8719>>>>,
     <<<<"p", "r", "o", "f", "a", "l", "a", "r", ";">>, <<9006>>>>,
     <<<<"p", "r", "o", "f", "l", "i", "n", "e", ";">>, <<8978>>>>,
     <<<<"p", "r", "o", "f", "s", "u", "r", "f", ";">>, <<8979>>>>,
     <<<<"p", "r", "o", "p", ";">>, <<8733>>>>,
     <<<<"p", "r", "o", "p", "t", "o", ";">>, <<8733>>>>,
     <<<<"p", "r", "s", "i", "m", ";">>, <<8830>>>>,
     <<<<"p", "r", "u", "r", "e", "l", ";">>, <<8880>>>>,
     <<<<"p", "s", "c", "r", ";">>, <<120005>>>>,
     <<<<"p", "s", "i", ";">>, <<968>>>>,
     <<<<"p", "u", "n", "c", "s", "p", ";">>, <<8200>>>>,
     <<<<"q", "f", "r", ";">>, <<120110>>>>,
     <<<<"q", "i", "n", "t", ";">>, <<10764>>>>,
     <<<<"q", "o", "p", "f", ";">>, <<120162>>>>,
     <<<<"q", "p", "r", "i", "m", "e", ";">>, <<8279>>>>,
     <<<<"q", "s", "c", "r", ";">>, <<120006>>>>,
     <<<<"q", "u", "a", "t", "e", "r", "n", "i", "o", "n", "s", ";">>, <<8461>>>>,
     <<<<"q", "u", "a", "t", "i", "n", "t", ";">>, <<10774>>>>,
     <<<<"q", "u", "e", "s", "t", ";">>, <<63>>>>,
     <<<<"q", "u", "e", "s", "t", "e", "q", ";">>, <<8799>>>>,
     <<<<"q", "u", "o", "t">>, <<34>>>>,
     <<<<"q", "u", "o", "t", ";">>, <<34>>>>,
     <<<<"r", "A", "a", "r", "r", ";">>, <<8667>>>>,
     <<<<"r", "A", "r", "r", ";">>, <<8658>>>>,
     <<<<"r", "A", "t", "a", "i", "l", ";">>, <<10524>>>>,
     <<<<"r", "B", "a", "r", "r", ";">>, <<10511>>>>,
     <<<<"r", "H", "a", "r", ";">>, <<10596>>>>,
     <<<<"r", "a", "c", "e", ";">>, <<8765, 817>>>>,
     <<<<"r", "a", "c", "u", "t", "e", ";">>, <<341>>>>,
     <<<<"r", "a", "d", "i", "c", ";">>, <<8730>>>>,
     <<<<"r", "a", "e", "m", "p", "t", "y", "v", ";">>, <<10675>>>>,
     <<<<"r", "a", "n", "g", ";">>, <<10217>>>>,
     <<<<"r", "a", "n", "g", "d", ";">>, <<10642>>>>,
     <<<<"r", "a", "n", "g", "e", ";">>, <<10661>>>>,
     <<<<"r", "a", "n", "g", "l", "e", ";">>, <<10217>>>>,
     <<<<"r", "a", "q", "u", "o">>, <<187>>>>,
     <<<<"r", "a", "q", "u", "o", ";">>, <<187>>>>,
     <<<<"r", "a", "r", "r", ";">>, <<8594>>>>,
     <<<<"r", "a", "r", "r", "a", "p", ";">>, <<10613>>>>,
     <<<<"r", "a", "r", "r", "b", ";">>, <<8677>>>>,
     <<<<"r", "a", "r", "r", "b", "f", "s", ";">>, <<10528>>>>,
     <<<<"r", "a", "r", "r", "c", ";">>, <<10547>>>>,
     <<<<"r", "a", "r", "r", "f", "s", ";">>, <<10526>>>>,
     <<<<"r", "a", "r", "r", "h", "k", ";">>, <<8618>>>>,
     <<<<"r", "a", "r", "r", "l", "p", ";">>, <<8620>>>>,
     <<<<"r", "a", "r", "r", "p", "l", ";">>, <<10565>>>>,
     <<<<"r", "a", "r", "r", "s", "i", "m", ";">>, <<10612>>>>,
     <<<<"r", "a", "r", "r", "t", "l", ";">>, <<8611>>>>,
     <<<<"r", "a", "r", "r", "w", ";">>, <<8605>>>>,
     <<<<"r", "a", "t", "a", "i", "l", ";">>, <<10522>>>>,
     <<<<"r", "a", "t", "i", "o", ";">>, <<8758>>>>,
     <<<<"r", "a", "t", "i", "o", "n", "a", "l", "s", ";">>, <<8474>>>>,
     <<<<"r", "b", "a", "r", "r", ";">>, <<10509>>>>,
     <<<<"r", "b", "b", "r", "k", ";">>, <<10099>>>>,
     <<<<"r", "b", "r", "a", "c", "e", ";">>, <<125>>>>,
     <<<<"r", "b", "r", "a", "c", "k", ";">>, <<93>>>>,
     <<<<"r", "b", "r", "k", "e", ";">>, <<10636>>>>,
     <<<<"r", "b", "r", "k", "s", "l", "d", ";">>, <<10638>>>>,
     <<<<"r", "b", "r", "k", "s", "l", "u", ";">>, <<10640>>>>,
     <<<<"r", "c", "a", "r", "o", "n", ";">>, <<345>>>>,
     <<<<"r", "c", "e", "d", "i", "l", ";">>, <<343>>>>,
     <<<<"r", "c", "e", "i", "l", ";">>, <<8969>>>>,
     <<<<"r", "c", "u", "b", ";">>, <<125>>>>,
     <<<<"r", "c", "y", ";">>, <<1088>>>>,
     <<<<"r", "d", "c", "a", ";">>, <<10551>>>>,
     <<<<"r", "d", "l", "d", "h", "a", "r", ";">>, <<10601>>>>,
     <<<<"r", "d", "q", "u", "o", ";">>, <<8221>>>>,
     <<<<"r", "d", "q", "u", "o", "r", ";">>, <<8221>>>>,
     <<<<"r", "d", "s", "h", ";">>, <<8627>>>>,
     <<<<"r", "e", "a", "l", ";">>, <<8476>>>>,
     <<<<"r", "e", "a", "l", "i", "n", "e", ";">>, <<8475>>>>,
     <<<<"r", "e", "a", "l", "p", "a", "r", "t", ";">>, <<8476>>>>,
     <<<<"r", "e", "a", "l", "s", ";">>, <<8477>>>>,
     <<<<"r", "e", "c", "t", ";">>, <<9645>>>>,
     <<<<"r", "e", "g">>, <<174>>>>,
     <<<<"r", "e", "g", ";">>, <<174>>>>,
     <<<<"r", "f", "i", "s", "h", "t", ";">>, <<10621>>>>,
     <<<<"r", "f", "l", "o", "o", "r", ";">>, <<8971>>>>,
     <<<<"r", "f", "r", ";">>, <<120111>>>>,
     <<<<"r", "h", "a", "r", "d", ";">>, <<8641>>>>,
     <<<<"r", "h", "a", "r", "u", ";">>, <<8640>>>>,
     <<<<"r", "h", "a", "r", "u", "l", ";">>, <<10604>>>>,
     <<<<"r", "h", "o", ";">>, <<961>>>>,
     <<<<"r", "h", "o", "v", ";">>, <<1009>>>>,
     <<<<"r", "i", "g", "h", "t", "a", "r", "r", "o", "w", ";">>, <<8594>>>>,
     <<<<"r", "i", "g", "h", "t", "a", "r", "r", "o", "w", "t", "a", "i", "l", ";">>, <<8611>>>>,
     <<<<"r", "i", "g", "h", "t", "h", "a", "r", "p", "o", "o", "n", "d", "o", "w", "n", ";">>, <<8641>>>>,
     <<<<"r", "i", "g", "h", "t", "h", "a", "r", "p", "o", "o", "n", "u", "p", ";">>, <<8640>>>>,
     <<<<"r", "i", "g", "h", "t", "l", "e", "f", "t", "a", "r", "r", "o", "w", "s", ";">>, <<8644>>>>,
     <<<<"r", "i", "g", "h", "t", "l", "e", "f", "t", "h", "a", "r", "p", "o", "o", "n", "s", ";">>, <<8652>>>>,
     <<<<"r", "i", "g", "h", "t", "r", "i", "g", "h", "t", "a", "r", "r", "o", "w", "s", ";">>, <<8649>>>>,
     <<<<"r", "i", "g", "h", "t", "s", "q", "u", "i", "g", "a", "r", "r", "o", "w", ";">>, <<8605>>>>,
     <<<<"r", "i", "g", "h", "t", "t", "h", "r", "e", "e", "t", "i", "m", "e", "s", ";">>, <<8908>>>>,
     <<<<"r", "i", "n", "g", ";">>, <<730>>>>,
     <<<<"r", "i", "s", "i", "n", "g", "d", "o", "t", "s", "e", "q", ";">>, <<8787>>>>,
     <<<<"r", "l", "a", "r", "r", ";">>, <<8644>>>>,
     <<<<"r", "l", "h", "a", "r", ";">>, <<8652>>>>,
     <<<<"r", "l", "m", ";">>, <<8207>>>>,
     <<<<"r", "m", "o", "u", "s", "t", ";">>, <<9137>>>>,
     <<<<"r", "m", "o", "u", "s", "t", "a", "c", "h", "e", ";">>, <<9137>>>>,
     <<<<"r", "n", "m", "i", "d", ";">>, <<10990>>>>,
     <<<<"r", "o", "a", "n", "g", ";">>, <<10221>>>>,
     <<<<"r", "o", "a", "r", "r", ";">>, <<8702>>>>,
     <<<<"r", "o", "b", "r", "k", ";">>, <<10215>>>>,
     <<<<"r", "o", "p", "a", "r", ";">>, <<10630>>>>,
     <<<<"r", "o", "p", "f", ";">>, <<120163>>>>,
     <<<<"r", "o", "p", "l", "u", "s", ";">>, <<10798>>>>,
     <<<<"r", "o", "t", "i", "m", "e", "s", ";">>, <<10805>>>>,
     <<<<"r", "p", "a", "r", ";">>, <<41>>>>,
     <<<<"r", "p", "a", "r", "g", "t", ";">>, <<10644>>>>,
     <<<<"r", "p", "p", "o", "l", "i", "n", "t", ";">>, <<10770>>>>,
     <<<<"r", "r", "a", "r", "r", ";">>, <<8649>>>>,
     <<<<"r", "s", "a", "q", "u", "o", ";">>, <<8250>>>>,
     <<<<"r", "s", "c", "r", ";">>, <<120007>>>>,
     <<<<"r", "s", "h", ";">>, <<8625>>>>,
     <<<<"r", "s", "q", "b", ";">>, <<93>>>>,
     <<<<"r", "s", "q", "u", "o", ";">>, <<8217>>>>,
     <<<<"r", "s", "q", "u", "o", "r", ";">>, <<8217>>>>,
     <<<<"r", "t", "h", "r", "e", "e", ";">>, <<8908>>>>,
     <<<<"r", "t", "i", "m", "e", "s", ";">>, <<8906>>>>,
     <<<<"r", "t", "r", "i", ";">>, <<9657>>>>,
     <<<<"r", "t", "r", "i", "e", ";">>, <<8885>>>>,
     <<<<"r", "t", "r", "i", "f", ";">>, <<9656>>>>,
     <<<<"r", "t", "r", "i", "l", "t", "r", "i", ";">>, <<10702>>>>,
     <<<<"r", "u", "l", "u", "h", "a", "r", ";">>, <<10600>>>>,
     <<<<"r", "x", ";">>, <<8478>>>>,
     <<<<"s", "a", "c", "u", "t", "e", ";">>, <<347>>>>,
     <<<<"s", "b", "q", "u", "o", ";">>, <<8218>>>>,
     <<<<"s", "c", ";">>, <<8827>>>>,
     <<<<"s", "c", "E", ";">>, <<10932>>>>,
     <<<<"s", "c", "a", "p", ";">>, <<10936>>>>,
     <<<<"s", "c", "a", "r", "o", "n", ";">>, <<353>>>>,
     <<<<"s", "c", "c", "u", "e", ";">>, <<8829>>>>,
     <<<<"s", "c", "e", ";">>, <<10928>>>>,
     <<<<"s", "c", "e", "d", "i", "l", ";">>, <<351>>>>,
     <<<<"s", "c", "i", "r", "c", ";">>, <<349>>>>,
     <<<<"s", "c", "n", "E", ";">>, <<10934>>>>,
     <<<<"s", "c", "n", "a", "p", ";">>, <<10938>>>>,
     <<<<"s", "c", "n", "s", "i", "m", ";">>, <<8937>>>>,
     <<<<"s", "c", "p", "o", "l", "i", "n", "t", ";">>, <<10771>>>>,
     <<<<"s", "c", "s", "i", "m", ";">>, <<8831>>>>,
     <<<<"s", "c", "y", ";">>, <<1089>>>>,
     <<<<"s", "d", "o", "t", ";">>, <<8901>>>>,
     <<<<"s", "d", "o", "t", "b", ";">>, <<8865>>>>,
     <<<<"s", "d", "o", "t", "e", ";">>, <<10854>>>>,
     <<<<"s", "e", "A", "r", "r", ";">>, <<8664>>>>,
     <<<<"s", "e", "a", "r", "h", "k", ";">>, <<10533>>>>,
     <<<<"s", "e", "a", "r", "r", ";">>, <<8600>>>>,
     <<<<"s", "e", "a", "r", "r", "o", "w", ";">>, <<8600>>>>,
     <<<<"s", "e", "c", "t">>, <<167>>>>,
     <<<<"s", "e", "c", "t", ";">>, <<167>>>>,
     <<<<"s", "e", "m", "i", ";">>, <<59>>>>,
     <<<<"s", "e", "s", "w", "a", "r", ";">>, <<10537>>>>,
     <<<<"s", "e", "t", "m", "i", "n", "u", "s", ";">>, <<8726>>>>,
     <<<<"s", "e", "t", "m", "n", ";">>, <<8726>>>>,
     <<<<"s", "e", "x", "t", ";">>, <<10038>>>>,
     <<<<"s", "f", "r", ";">>, <<120112>>>>,
     <<<<"s", "f", "r", "o", "w", "n", ";">>, <<8994>>>>,
     <<<<"s", "h", "a", "r", "p", ";">>, <<9839>>>>,
     <<<<"s", "h", "c", "h", "c", "y", ";">>, <<1097>>>>,
     <<<<"s", "h", "c", "y", ";">>, <<1096>>>>,
     <<<<"s", "h", "o", "r", "t", "m", "i", "d", ";">>, <<8739>>>>,
     <<<<"s", "h", "o", "r", "t", "p", "a", "r", "a", "l", "l", "e", "l", ";">>, <<8741>>>>,
     <<<<"s", "h", "y">>, <<173>>>>,
     <<<<"s", "h", "y", ";">>, <<173>>>>,
     <<<<"s", "i", "g", "m", "a", ";">>, <<963>>>>,
     <<<<"s", "i", "g", "m", "a", "f", ";">>, <<962>>>>,
     <<<<"s", "i", "g", "m", "a", "v", ";">>, <<962>>>>,
     <<<<"s", "i", "m", ";">>, <<8764>>>>,
     <<<<"s", "i", "m", "d", "o", "t", ";">>, <<10858>>>>,
     <<<<"s", "i", "m", "e", ";">>, <<8771>>>>,
     <<<<"s", "i", "m", "e", "q", ";">>, <<8771>>>>,
     <<<<"s", "i", "m", "g", ";">>, <<10910>>>>,
     <<<<"s", "i", "m", "g", "E", ";">>, <<10912>>>>,
     <<<<"s", "i", "m", "l", ";">>, <<10909>>>>,
     <<<<"s", "i", "m", "l", "E", ";">>, <<10911>>>>,
     <<<<"s", "i", "m", "n", "e", ";">>, <<8774>>>>,
     <<<<"s", "i", "m", "p", "l", "u", "s", ";">>, <<10788>>>>,
     <<<<"s", "i", "m", "r", "a", "r", "r", ";">>, <<10610>>>>,
     <<<<"s", "l", "a", "r", "r", ";">>, <<8592>>>>,
     <<<<"s", "m", "a", "l", "l", "s", "e", "t", "m", "i", "n", "u", "s", ";">>, <<8726>>>>,
     <<<<"s", "m", "a", "s", "h", "p", ";">>, <<10803>>>>,
     <<<<"s", "m", "e", "p", "a", "r", "s", "l", ";">>, <<10724>>>>,
     <<<<"s", "m", "i", "d", ";">>, <<8739>>>>,
     <<<<"s", "m", "i", "l", "e", ";">>, <<8995>>>>,
     <<<<"s", "m", "t", ";">>, <<10922>>>>,
     <<<<"s", "m", "t", "e", ";">>, <<10924>>>>,
     <<<<"s", "m", "t", "e", "s", ";">>, <<10924, 65024>>>>,
     <<<<"s", "o", "f", "t", "c", "y", ";">>, <<1100>>>>,
     <<<<"s", "o", "l", ";">>, <<47>>>>,
     <<<<"s", "o", "l", "b", ";">>, <<10692>>>>,
     <<<<"s", "o", "l", "b", "a", "r", ";">>, <<9023>>>>,
     <<<<"s", "o", "p", "f", ";">>, <<120164>>>>,
     <<<<"s", "p", "a", "d", "e", "s", ";">>, <<9824>>>>,
     <<<<"s", "p", "a", "d", "e", "s", "u", "i", "t", ";">>, <<9824>>>>,
     <<<<"s", "p", "a", "r", ";">>, <<8741>>>>,
     <<<<"s", "q", "c", "a", "p", ";">>, <<8851>>>>,
     <<<<"s", "q", "c", "a", "p", "s", ";">>, <<8851, 65024>>>>,
     <<<<"s", "q", "c", "u", "p", ";">>, <<8852>>>>,
     <<<<"s", "q", "c", "u", "p", "s", ";">>, <<8852, 65024>>>>,
     <<<<"s", "q", "s", "u", "b", ";">>, <<8847>>>>,
     <<<<"s", "q", "s", "u", "b", "e", ";">>, <<8849>>>>,
     <<<<"s", "q", "s", "u", "b", "s", "e", "t", ";">>, <<8847>>>>,
     <<<<"s", "q", "s", "u", "b", "s", "e", "t", "e", "q", ";">>, <<8849>>>>,
     <<<<"s", "q", "s", "u", "p", ";">>, <<8848>>>>,
     <<<<"s", "q", "s", "u", "p", "e", ";">>, <<8850>>>>,
     <<<<"s", "q", "s", "u", "p", "s", "e", "t", ";">>, <<8848>>>>,
     <<<<"s", "q", "s", "u", "p", "s", "e", "t", "e", "q", ";">>, <<8850>>>>,
     <<<<"s", "q", "u", ";">>, <<9633>>>>,
     <<<<"s", "q", "u", "a", "r", "e", ";">>, <<9633>>>>,
     <<<<"s", "q", "u", "a", "r", "f", ";">>, <<9642>>>>,
     <<<<"s", "q", "u", "f", ";">>, <<9642>>>>,
     <<<<"s", "r", "a", "r", "r", ";">>, <<8594>>>>,
     <<<<"s", "s", "c", "r", ";">>, <<120008>>>>,
     <<<<"s", "s", "e", "t", "m", "n", ";">>, <<8726>>>>,
     <<<<"s", "s", "m", "i", "l", "e", ";">>, <<8995>>>>,
     <<<<"s", "s", "t", "a", "r", "f", ";">>, <<8902>>>>,
     <<<<"s", "t", "a", "r", ";">>, <<9734>>>>,
     <<<<"s", "t", "a", "r", "f", ";">>, <<9733>>>>,
     <<<<"s", "t", "r", "a", "i", "g", "h", "t", "e", "p", "s", "i", "l", "o", "n", ";">>, <<1013>>>>,
     <<<<"s", "t", "r", "a", "i", "g", "h", "t", "p", "h", "i", ";">>, <<981>>>>,
     <<<<"s", "t", "r", "n", "s", ";">>, <<175>>>>,
     <<<<"s", "u", "b", ";">>, <<8834>>>>,
     <<<<"s", "u", "b", "E", ";">>, <<10949>>>>,
     <<<<"s", "u", "b", "d", "o", "t", ";">>, <<10941>>>>,
     <<<<"s", "u", "b", "e", ";">>, <<8838>>>>,
     <<<<"s", "u", "b", "e", "d", "o", "t", ";">>, <<10947>>>>,
     <<<<"s", "u", "b", "m", "u", "l", "t", ";">>, <<10945>>>>,
     <<<<"s", "u", "b", "n", "E", ";">>, <<10955>>>>,
     <<<<"s", "u", "b", "n", "e", ";">>, <<8842>>>>,
     <<<<"s", "u", "b", "p", "l", "u", "s", ";">>, <<10943>>>>,
     <<<<"s", "u", "b", "r", "a", "r", "r", ";">>, <<10617>>>>,
     <<<<"s", "u", "b", "s", "e", "t", ";">>, <<8834>>>>,
     <<<<"s", "u", "b", "s", "e", "t", "e", "q", ";">>, <<8838>>>>,
     <<<<"s", "u", "b", "s", "e", "t", "e", "q", "q", ";">>, <<10949>>>>,
     <<<<"s", "u", "b", "s", "e", "t", "n", "e", "q", ";">>, <<8842>>>>,
     <<<<"s", "u", "b", "s", "e", "t", "n", "e", "q", "q", ";">>, <<10955>>>>,
     <<<<"s", "u", "b", "s", "i", "m", ";">>, <<10951>>>>,
     <<<<"s", "u", "b", "s", "u", "b", ";">>, <<10965>>>>,
     <<<<"s", "u", "b", "s", "u", "p", ";">>, <<10963>>>>,
     <<<<"s", "u", "c", "c", ";">>, <<8827>>>>,
     <<<<"s", "u", "c", "c", "a", "p", "p", "r", "o", "x", ";">>, <<10936>>>>,
     <<<<"s", "u", "c", "c", "c", "u", "r", "l", "y", "e", "q", ";">>, <<8829>>>>,
     <<<<"s", "u", "c", "c", "e", "q", ";">>, <<10928>>>>,
     <<<<"s", "u", "c", "c", "n", "a", "p", "p", "r", "o", "x", ";">>, <<10938>>>>,
     <<<<"s", "u", "c", "c", "n", "e", "q", "q", ";">>, <<10934>>>>,
     <<<<"s", "u", "c", "c", "n", "s", "i", "m", ";">>, <<8937>>>>,
     <<<<"s", "u", "c", "c", "s", "i", "m", ";">>, <<8831>>>>,
     <<<<"s", "u", "m", ";">>, <<8721>>>>,
     <<<<"s", "u", "n", "g", ";">>, <<9834>>>>,
     <<<<"s", "u", "p", "1">>, <<185>>>>,
     <<<<"s", "u", "p", "1", ";">>, <<185>>>>,
     <<<<"s", "u", "p", "2">>, <<178>>>>,
     <<<<"s", "u", "p", "2", ";">>, <<178>>>>,
     <<<<"s", "u", "p", "3">>, <<179>>>>,
     <<<<"s", "u", "p", "3", ";">>, <<179>>>>,
     <<<<"s", "u", "p", ";">>, <<8835>>>>,
     <<<<"s", "u", "p", "E", ";">>, <<10950>>>>,
     <<<<"s", "u", "p", "d", "o", "t", ";">>, <<10942>>>>,
     <<<<"s", "u", "p", "d", "s", "u", "b", ";">>, <<10968>>>>,
     <<<<"s", "u", "p", "e", ";">>, <<8839>>>>,
     <<<<"s", "u", "p", "e", "d", "o", "t", ";">>, <<10948>>>>,
     <<<<"s", "u", "p", "h", "s", "o", "l", ";">>, <<10185>>>>,
     <<<<"s", "u", "p", "h", "s", "u", "b", ";">>, <<10967>>>>,
     <<<<"s", "u", "p", "l", "a", "r", "r", ";">>, <<10619>>>>,
     <<<<"s", "u", "p", "m", "u", "l", "t", ";">>, <<10946>>>>,
     <<<<"s", "u", "p", "n", "E", ";">>, <<10956>>>>,
     <<<<"s", "u", "p", "n", "e", ";">>, <<8843>>>>,
     <<<<"s", "u", "p", "p", "l", "u", "s", ";">>, <<10944>>>>,
     <<<<"s", "u", "p", "s", "e", "t", ";">>, <<8835>>>>,
     <<<<"s", "u", "p", "s", "e", "t", "e", "q", ";">>, <<8839>>>>,
     <<<<"s", "u", "p", "s", "e", "t", "e", "q", "q", ";">>, <<10950>>>>,
     <<<<"s", "u", "p", "s", "e", "t", "n", "e", "q", ";">>, <<8843>>>>,
     <<<<"s", "u", "p", "s", "e", "t", "n", "e", "q", "q", ";">>, <<10956>>>>,
     <<<<"s", "u", "p", "s", "i", "m", ";">>, <<10952>>>>,
     <<<<"s", "u", "p", "s", "u", "b", ";">>, <<10964>>>>,
     <<<<"s", "u", "p", "s", "u", "p", ";">>, <<10966>>>>,
     <<<<"s", "w", "A", "r", "r", ";">>, <<8665>>>>,
     <<<<"s", "w", "a", "r", "h", "k", ";">>, <<10534>>>>,
     <<<<"s", "w", "a", "r", "r", ";">>, <<8601>>>>,
     <<<<"s", "w", "a", "r", "r", "o", "w", ";">>, <<8601>>>>,
     <<<<"s", "w", "n", "w", "a", "r", ";">>, <<10538>>>>,
     <<<<"s", "z", "l", "i", "g">>, <<223>>>>,
     <<<<"s", "z", "l", "i", "g", ";">>, <<223>>>>,
     <<<<"t", "a", "r", "g", "e", "t", ";">>, <<8982>>>>,
     <<<<"t", "a", "u", ";">>, <<964>>>>,
     <<<<"t", "b", "r", "k", ";">>, <<9140>>>>,
     <<<<"t", "c", "a", "r", "o", "n", ";">>, <<357>>>>,
     <<<<"t", "c", "e", "d", "i", "l", ";">>, <<355>>>>,
     <<<<"t", "c", "y", ";">>, <<1090>>>>,
     <<<<"t", "d", "o", "t", ";">>, <<8411>>>>,
     <<<<"t", "e", "l", "r", "e", "c", ";">>, <<8981>>>>,
     <<<<"t", "f", "r", ";">>, <<120113>>>>,
     <<<<"t", "h", "e", "r", "e", "4", ";">>, <<8756>>>>,
     <<<<"t", "h", "e", "r", "e", "f", "o", "r", "e", ";">>, <<8756>>>>,
     <<<<"t", "h", "e", "t", "a", ";">>, <<952>>>>,
     <<<<"t", "h", "e", "t", "a", "s", "y", "m", ";">>, <<977>>>>,
     <<<<"t", "h", "e", "t", "a", "v", ";">>, <<977>>>>,
     <<<<"t", "h", "i", "c", "k", "a", "p", "p", "r", "o", "x", ";">>, <<8776>>>>,
     <<<<"t", "h", "i", "c", "k", "s", "i", "m", ";">>, <<8764>>>>,
     <<<<"t", "h", "i", "n", "s", "p", ";">>, <<8201>>>>,
     <<<<"t", "h", "k", "a", "p", ";">>, <<8776>>>>,
     <<<<"t", "h", "k", "s", "i", "m", ";">>, <<8764>>>>,
     <<<<"t", "h", "o", "r", "n">>, <<254>>>>,
     <<<<"t", "h", "o", "r", "n", ";">>, <<254>>>>,
     <<<<"t", "i", "l", "d", "e", ";">>, <<732>>>>,
     <<<<"t", "i", "m", "e", "s">>, <<215>>>>,
     <<<<"t", "i", "m", "e", "s", ";">>, <<215>>>>,
     <<<<"t", "i", "m", "e", "s", "b", ";">>, <<8864>>>>,
     <<<<"t", "i", "m", "e", "s", "b", "a", "r", ";">>, <<10801>>>>,
     <<<<"t", "i", "m", "e", "s", "d", ";">>, <<10800>>>>,
     <<<<"t", "i", "n", "t", ";">>, <<8749>>>>,
     <<<<"t", "o", "e", "a", ";">>, <<10536>>>>,
     <<<<"t", "o", "p", ";">>, <<8868>>>>,
     <<<<"t", "o", "p", "b", "o", "t", ";">>, <<9014>>>>,
     <<<<"t", "o", "p", "c", "i", "r", ";">>, <<10993>>>>,
     <<<<"t", "o", "p", "f", ";">>, <<120165>>>>,
     <<<<"t", "o", "p", "f", "o", "r", "k", ";">>, <<10970>>>>,
     <<<<"t", "o", "s", "a", ";">>, <<10537>>>>,
     <<<<"t", "p", "r", "i", "m", "e", ";">>, <<8244>>>>,
     <<<<"t", "r", "a", "d", "e", ";">>, <<8482>>>>,
     <<<<"t", "r", "i", "a", "n", "g", "l", "e", ";">>, <<9653>>>>,
     <<<<"t", "r", "i", "a", "n", "g", "l", "e", "d", "o", "w", "n", ";">>, <<9663>>>>,
     <<<<"t", "r", "i", "a", "n", "g", "l", "e", "l", "e", "f", "t", ";">>, <<9667>>>>,
     <<<<"t", "r", "i", "a", "n", "g", "l", "e", "l", "e", "f", "t", "e", "q", ";">>, <<8884>>>>,
     <<<<"t", "r", "i", "a", "n", "g", "l", "e", "q", ";">>, <<8796>>>>,
     <<<<"t", "r", "i", "a", "n", "g", "l", "e", "r", "i", "g", "h", "t", ";">>, <<9657>>>>,
     <<<<"t", "r", "i", "a", "n", "g", "l", "e", "r", "i", "g", "h", "t", "e", "q", ";">>, <<8885>>>>,
     <<<<"t", "r", "i", "d", "o", "t", ";">>, <<9708>>>>,
     <<<<"t", "r", "i", "e", ";">>, <<8796>>>>,
     <<<<"t", "r", "i", "m", "i", "n", "u", "s", ";">>, <<10810>>>>,
     <<<<"t", "r", "i", "p", "l", "u", "s", ";">>, <<10809>>>>,
     <<<<"t", "r", "i", "s", "b", ";">>, <<10701>>>>,
     <<<<"t", "r", "i", "t", "i", "m", "e", ";">>, <<10811>>>>,
     <<<<"t", "r", "p", "e", "z", "i", "u", "m", ";">>, <<9186>>>>,
     <<<<"t", "s", "c", "r", ";">>, <<120009>>>>,
     <<<<"t", "s", "c", "y", ";">>, <<1094>>>>,
     <<<<"t", "s", "h", "c", "y", ";">>, <<1115>>>>,
     <<<<"t", "s", "t", "r", "o", "k", ";">>, <<359>>>>,
     <<<<"t", "w", "i", "x", "t", ";">>, <<8812>>>>,
     <<<<"t", "w", "o", "h", "e", "a", "d", "l", "e", "f", "t", "a", "r", "r", "o", "w", ";">>, <<8606>>>>,
     <<<<"t", "w", "o", "h", "e", "a", "d", "r", "i", "g", "h", "t", "a", "r", "r", "o", "w", ";">>, <<8608>>>>,
     <<<<"u", "A", "r", "r", ";">>, <<8657>>>>,
     <<<<"u", "H", "a", "r", ";">>, <<10595>>>>,
     <<<<"u", "a", "c", "u", "t", "e">>, <<250>>>>,
     <<<<"u", "a", "c", "u", "t", "e", ";">>, <<250>>>>,
     <<<<"u", "a", "r", "r", ";">>, <<8593>>>>,
     <<<<"u", "b", "r", "c", "y", ";">>, <<1118>>>>,
     <<<<"u", "b", "r", "e", "v", "e", ";">>, <<365>>>>,
     <<<<"u", "c", "i", "r", "c">>, <<251>>>>,
     <<<<"u", "c", "i", "r", "c", ";">>, <<251>>>>,
     <<<<"u", "c", "y", ";">>, <<1091>>>>,
     <<<<"u", "d", "a", "r", "r", ";">>, <<8645>>>>,
     <<<<"u", "d", "b", "l", "a", "c", ";">>, <<369>>>>,
     <<<<"u", "d", "h", "a", "r", ";">>, <<10606>>>>,
     <<<<"u", "f", "i", "s", "h", "t", ";">>, <<10622>>>>,
     <<<<"u", "f", "r", ";">>, <<120114>>>>,
     <<<<"u", "g", "r", "a", "v", "e">>, <<249>>>>,
     <<<<"u", "g", "r", "a", "v", "e", ";">>, <<249>>>>,
     <<<<"u", "h", "a", "r", "l", ";">>, <<8639>>>>,
     <<<<"u", "h", "a", "r", "r", ";">>, <<8638>>>>,
     <<<<"u", "h", "b", "l", "k", ";">>, <<9600>>>>,
     <<<<"u", "l", "c", "o", "r", "n", ";">>, <<8988>>>>,
     <<<<"u", "l", "c", "o", "r", "n", "e", "r", ";">>, <<8988>>>>,
     <<<<"u", "l", "c", "r", "o", "p", ";">>, <<8975>>>>,
     <<<<"u", "l", "t", "r", "i", ";">>, <<9720>>>>,
     <<<<"u", "m", "a", "c", "r", ";">>, <<363>>>>,
     <<<<"u", "m", "l">>, <<168>>>>,
     <<<<"u", "m", "l", ";">>, <<168>>>>,
     <<<<"u", "o", "g", "o", "n", ";">>, <<371>>>>,
     <<<<"u", "o", "p", "f", ";">>, <<120166>>>>,
     <<<<"u", "p", "a", "r", "r", "o", "w", ";">>, <<8593>>>>,
     <<<<"u", "p", "d", "o", "w", "n", "a", "r", "r", "o", "w", ";">>, <<8597>>>>,
     <<<<"u", "p", "h", "a", "r", "p", "o", "o", "n", "l", "e", "f", "t", ";">>, <<8639>>>>,
     <<<<"u", "p", "h", "a", "r", "p", "o", "o", "n", "r", "i", "g", "h", "t", ";">>, <<8638>>>>,
     <<<<"u", "p", "l", "u", "s", ";">>, <<8846>>>>,
     <<<<"u", "p", "s", "i", ";">>, <<965>>>>,
     <<<<"u", "p", "s", "i", "h", ";">>, <<978>>>>,
     <<<<"u", "p", "s", "i", "l", "o", "n", ";">>, <<965>>>>,
     <<<<"u", "p", "u", "p", "a", "r", "r", "o", "w", "s", ";">>, <<8648>>>>,
     <<<<"u", "r", "c", "o", "r", "n", ";">>, <<8989>>>>,
     <<<<"u", "r", "c", "o", "r", "n", "e", "r", ";">>, <<8989>>>>,
     <<<<"u", "r", "c", "r", "o", "p", ";">>, <<8974>>>>,
     <<<<"u", "r", "i", "n", "g", ";">>, <<367>>>>,
     <<<<"u", "r", "t", "r", "i", ";">>, <<9721>>>>,
     <<<<"u", "s", "c", "r", ";">>, <<120010>>>>,
     <<<<"u", "t", "d", "o", "t", ";">>, <<8944>>>>,
     <<<<"u", "t", "i", "l", "d", "e", ";">>, <<361>>>>,
     <<<<"u", "t", "r", "i", ";">>, <<9653>>>>,
     <<<<"u", "t", "r", "i", "f", ";">>, <<9652>>>>,
     <<<<"u", "u", "a", "r", "r", ";">>, <<8648>>>>,
     <<<<"u", "u", "m", "l">>, <<252>>>>,
     <<<<"u", "u", "m", "l", ";">>, <<252>>>>,
     <<<<"u", "w", "a", "n", "g", "l", "e", ";">>, <<10663>>>>,
     <<<<"v", "A", "r", "r", ";">>, <<8661>>>>,
     <<<<"v", "B", "a", "r", ";">>, <<10984>>>>,
     <<<<"v", "B", "a", "r", "v", ";">>, <<10985>>>>,
     <<<<"v", "D", "a", "s", "h", ";">>, <<8872>>>>,
     <<<<"v", "a", "n", "g", "r", "t", ";">>, <<10652>>>>,
     <<<<"v", "a", "r", "e", "p", "s", "i", "l", "o", "n", ";">>, <<1013>>>>,
     <<<<"v", "a", "r", "k", "a", "p", "p", "a", ";">>, <<1008>>>>,
     <<<<"v", "a", "r", "n", "o", "t", "h", "i", "n", "g", ";">>, <<8709>>>>,
     <<<<"v", "a", "r", "p", "h", "i", ";">>, <<981>>>>,
     <<<<"v", "a", "r", "p", "i", ";">>, <<982>>>>,
     <<<<"v", "a", "r", "p", "r", "o", "p", "t", "o", ";">>, <<8733>>>>,
     <<<<"v", "a", "r", "r", ";">>, <<8597>>>>,
     <<<<"v", "a", "r", "r", "h", "o", ";">>, <<1009>>>>,
     <<<<"v", "a", "r", "s", "i", "g", "m", "a", ";">>, <<962>>>>,
     <<<<"v", "a", "r", "s", "u", "b", "s", "e", "t", "n", "e", "q", ";">>, <<8842, 65024>>>>,
     <<<<"v", "a", "r", "s", "u", "b", "s", "e", "t", "n", "e", "q", "q", ";">>, <<10955, 65024>>>>,
     <<<<"v", "a", "r", "s", "u", "p", "s", "e", "t", "n", "e", "q", ";">>, <<8843, 65024>>>>,
     <<<<"v", "a", "r", "s", "u", "p", "s", "e", "t", "n", "e", "q", "q", ";">>, <<10956, 65024>>>>,
     <<<<"v", "a", "r", "t", "h", "e", "t", "a", ";">>, <<977>>>>,
     <<<<"v", "a", "r", "t", "r", "i", "a", "n", "g", "l", "e", "l", "e", "f", "t", ";">>, <<8882>>>>,
     <<<<"v", "a", "r", "t", "r", "i", "a", "n", "g", "l", "e", "r", "i", "g", "h", "t", ";">>, <<8883>>>>,
     <<<<"v", "c", "y", ";">>, <<1074>>>>,
     <<<<"v", "d", "a", "s", "h", ";">>, <<8866>>>>,
     <<<<"v", "e", "e", ";">>, <<8744>>>>,
     <<<<"v", "e", "e", "b", "a", "r", ";">>, <<8891>>>>,
     <<<<"v", "e", "e", "e", "q", ";">>, <<8794>>>>,
     <<<<"v", "e", "l", "l", "i", "p", ";">>, <<8942>>>>,
     <<<<"v", "e", "r", "b", "a", "r", ";">>, <<124>>>>,
     <<<<"v", "e", "r", "t", ";">>, <<124>>>>,
     <<<<"v", "f", "r", ";">>, <<120115>>>>,
     <<<<"v", "l", "t", "r", "i", ";">>, <<8882>>>>,
     <<<<"v", "n", "s", "u", "b", ";">>, <<8834, 8402>>>>,
     <<<<"v", "n", "s", "u", "p", ";">>, <<8835, 8402>>>>,
     <<<<"v", "o", "p", "f", ";">>, <<120167>>>>,
     <<<<"v", "p", "r", "o", "p", ";">>, <<8733>>>>,
     <<<<"v", "r", "t", "r", "i", ";">>, <<8883>>>>,
     <<<<"v", "s", "c", "r", ";">>, <<120011>>>>,
     <<<<"v", "s", "u", "b", "n", "E", ";">>, <<10955, 65024>>>>,
     <<<<"v", "s", "u", "b", "n", "e", ";">>, <<8842, 65024>>>>,
     <<<<"v", "s", "u", "p", "n", "E", ";">>, <<10956, 65024>>>>,
     <<<<"v", "s", "u", "p", "n", "e", ";">>, <<8843, 65024>>>>,
     <<<<"v", "z", "i", "g", "z", "a", "g", ";">>, <<10650>>>>,
     <<<<"w", "c", "i", "r", "c", ";">>, <<373>>>>,
     <<<<"w", "e", "d", "b", "a", "r", ";">>, <<10847>>>>,
     <<<<"w", "e", "d", "g", "e", ";">>, <<8743>>>>,
     <<<<"w", "e", "d", "g", "e", "q", ";">>, <<8793>>>>,
     <<<<"w", "e", "i", "e", "r", "p", ";">>, <<8472>>>>,
     <<<<"w", "f", "r", ";">>, <<120116>>>>,
     <<<<"w", "o", "p", "f", ";">>, <<120168>>>>,
     <<<<"w", "p", ";">>, <<8472>>>>,
     <<<<"w", "r", ";">>, <<8768>>>>,
     <<<<"w", "r", "e", "a", "t", "h", ";">>, <<8768>>>>,
     <<<<"w", "s", "c", "r", ";">>, <<120012>>>>,
     <<<<"x", "c", "a", "p", ";">>, <<8898>>>>,
     <<<<"x", "c", "i", "r", "c", ";">>, <<9711>>>>,
     <<<<"x", "c", "u", "p", ";">>, <<8899>>>>,
     <<<<"x", "d", "t", "r", "i", ";">>, <<9661>>>>,
     <<<<"x", "f", "r", ";">>, <<120117>>>>,
     <<<<"x", "h", "A", "r", "r", ";">>, <<10234>>>>,
     <<<<"x", "h", "a", "r", "r", ";">>, <<10231>>>>,
     <<<<"x", "i", ";">>, <<958>>>>,
     <<<<"x", "l", "A", "r", "r", ";">>, <<10232>>>>,
     <<<<"x", "l", "a", "r", "r", ";">>, <<10229>>>>,
     <<<<"x", "m", "a", "p", ";">>, <<10236>>>>,
     <<<<"x", "n", "i", "s", ";">>, <<8955>>>>,
     <<<<"x", "o", "d", "o", "t", ";">>, <<10752>>>>,
     <<<<"x", "o", "p", "f", ";">>, <<120169>>>>,
     <<<<"x", "o", "p", "l", "u", "s", ";">>, <<10753>>>>,
     <<<<"x", "o", "t", "i", "m", "e", ";">>, <<10754>>>>,
     <<<<"x", "r", "A", "r", "r", ";">>, <<10233>>>>,
     <<<<"x", "r", "a", "r", "r", ";">>, <<10230>>>>,
     <<<<"x", "s", "c", "r", ";">>, <<120013>>>>,
     <<<<"x", "s", "q", "c", "u", "p", ";">>, <<10758>>>>,
     <<<<"x", "u", "p", "l", "u", "s", ";">>, <<10756>>>>,
     <<<<"x", "u", "t", "r", "i", ";">>, <<9651>>>>,
     <<<<"x", "v", "e", "e", ";">>, <<8897>>>>,
     <<<<"x", "w", "e", "d", "g", "e", ";">>, <<8896>>>>,
     <<<<"y", "a", "c", "u", "t", "e">>, <<253>>>>,
     <<<<"y", "a", "c", "u", "t", "e", ";">>, <<253>>>>,
     <<<<"y", "a", "c", "y", ";">>, <<1103>>>>,
     <<<<"y", "c", "i", "r", "c", ";">>, <<375>>>>,
     <<<<"y", "c", "y", ";">>, <<1099>>>>,
     <<<<"y", "e", "n">>, <<165>>>>,
     <<<<"y", "e", "n", ";">>, <<165>>>>,
     <<<<"y", "f", "r", ";">>, <<120118>>>>,
     <<<<"y", "i", "c", "y", ";">>, <<1111>>>>,
     <<<<"y", "o", "p", "f", ";">>, <<120170>>>>,
     <<<<"y", "s", "c", "r", ";">>, <<120014>>>>,
     <<<<"y", "u", "c", "y", ";">>, <<1102>>>>,
     <<<<"y", "u", "m", "l">>, <<255>>>>,
     <<<<"y", "u", "m", "l", ";">>, <<255>>>>,
     <<<<"z", "a", "c", "u", "t", "e", ";">>, <<378>>>>,
     <<<<"z", "c", "a", "r", "o", "n", ";">>, <<382>>>>,
     <<<<"z", "c", "y", ";">>, <<1079>>>>,
     <<<<"z", "d", "o", "t", ";">>, <<380>>>>,
     <<<<"z", "e", "e", "t", "r", "f", ";">>, <<8488>>>>,
     <<<<"z", "e", "t", "a", ";">>, <<950>>>>,
     <<<<"z", "f", "r", ";">>, <<120119>>>>,
     <<<<"z", "h", "c", "y", ";">>, <<1078>>>>,
     <<<<"z", "i", "g", "r", "a", "r", "r", ";">>, <<8669>>>>,
     <<<<"z", "o", "p", "f", ";">>, <<120171>>>>,
     <<<<"z", "s", "c", "r", ";">>, <<120015>>>>,
     <<<<"z", "w", "j", ";">>, <<8205>>>>,
     <<<<"z", "w", "n", "j", ";">>, <<8204>>>>}

html5_names == {e[1] : e \in html5}

in_html5(name) == name \in html5_names

\* html5[name]: the characters of the code points the table has for a name.
html5_chars(code_points) == [i \in 1..Len(code_points) |-> chr(code_points[i])]

html5_of(name) == html5_chars((CHOOSE e \in html5 : e[1] = name)[2])

\* What html.unescape gives back: a text, or the ValueError that leaves it.
Returned(text) == [tag |-> "ok", text |-> text]

RaisedValueError == [tag |-> "ValueError", text |-> <<>>]

\* a + b, where an exception of a, else of b, is what comes of it.
concat(a, b) ==
    IF a.tag # "ok" THEN a
    ELSE IF b.tag # "ok" THEN b
    ELSE Returned(a.text \o b.text)

\* What ends the name of a reference: [^\t\n\f <&#;] of _charref.
NameStop == {"\t", "\n", "\f", " ", "<", "&", "#", ";"}

\* The length of the longest run of name characters s starts with, up to max.
RECURSIVE name_run(_, _)
name_run(s, max) ==
    IF max = 0 \/ s = <<>> \/ Head(s) \in NameStop THEN 0
    ELSE 1 + name_run(Tail(s), max - 1)

\* The run with the ";" that follows it, if one does.
with_semicolon(s, run) ==
    IF run > 0 /\ Len(s) > run /\ s[run + 1] = ";" THEN run + 1 ELSE run

\* The length of the run of characters of the set `digits` s starts with.
digit_run(s, digits) ==
    IF \A i \in 1..Len(s) : s[i] \in digits THEN Len(s)
    ELSE (CHOOSE i \in 1..Len(s) :
            s[i] \notin digits /\ \A j \in 1..(i - 1) : s[j] \in digits) - 1

\* The length of what _charref matches after an "&": 0 when it matches not.
\* After "#" it is #[xX][0-9a-fA-F]+;? or #[0-9]+;?, else the name.
charref_len(s) ==
    IF s = <<>> \/ Head(s) # "#" THEN with_semicolon(s, name_run(s, 32))
    ELSE IF Len(s) >= 2 /\ s[2] \in {"x", "X"}
    THEN IF digit_run(SubSeq(s, 3, Len(s)), HexDigits) = 0 THEN 0
         ELSE with_semicolon(s, 2 + digit_run(SubSeq(s, 3, Len(s)), HexDigits))
    ELSE IF digit_run(Tail(s), Digits) = 0 THEN 0
    ELSE with_semicolon(s, 1 + digit_run(Tail(s), Digits))

\* for x in range(len(s)-1, 1, -1): the longest prefix in the table, 0 when
\* there is none.
RECURSIVE longest_name(_, _)
longest_name(s, x) ==
    IF x < 2 THEN 0
    ELSE IF in_html5(SubSeq(s, 1, x)) THEN x
    ELSE longest_name(s, x - 1)

replace_named(s, x) ==
    IF in_html5(s) THEN html5_of(s)
    ELSE IF x > 0 THEN html5_of(SubSeq(s, 1, x)) \o SubSeq(s, x + 1, Len(s))
    ELSE <<"&">> \o s

\* sys.int_info.default_max_str_digits: int() takes no more decimal digits.
max_str_digits == 4300

\* The ValueError of int() in place of a number.
IntValueError == -1

\* The value of the digits s from the value num of the digits before them.
\* Every number over the last code point, 1114111, has the same
\* replacement: 1114112 stands for them all.
RECURSIVE int_digits(_, _, _)
int_digits(s, base, num) ==
    IF num > 1114111 THEN 1114112
    ELSE IF s = <<>> THEN num
    ELSE int_digits(Tail(s), base, num * base + digit_value(Head(s)))

\* int(s.rstrip(';'), base): s is digits and at most one ";", which ends
\* it.  In base 10 more than max_str_digits digits, zeros at the front
\* counted, raise ValueError; base 16 has no such limit.  Zeros at the
\* front add nothing to the value.
int_from(s, base) ==
    IF base = 10 /\ digit_run(s, Digits) > max_str_digits THEN IntValueError
    ELSE int_digits(SubSeq(s, digit_run(s, {"0"}) + 1, digit_run(s, HexDigits)), base, 0)

\* html._invalid_charrefs: the code points that are replaced, each with the
\* code point of its replacement.
invalid_charrefs ==
    {<<0, 65533>>, <<13, 13>>, <<128, 8364>>, <<129, 129>>, <<130, 8218>>,
     <<131, 402>>, <<132, 8222>>, <<133, 8230>>, <<134, 8224>>,
     <<135, 8225>>, <<136, 710>>, <<137, 8240>>, <<138, 352>>,
     <<139, 8249>>, <<140, 338>>, <<141, 141>>, <<142, 381>>, <<143, 143>>,
     <<144, 144>>, <<145, 8216>>, <<146, 8217>>, <<147, 8220>>,
     <<148, 8221>>, <<149, 8226>>, <<150, 8211>>, <<151, 8212>>,
     <<152, 732>>, <<153, 8482>>, <<154, 353>>, <<155, 8250>>,
     <<156, 339>>, <<157, 157>>, <<158, 382>>, <<159, 376>>}

\* html._invalid_codepoints
invalid_codepoints ==
    (1..8) \cup (14..31) \cup (127..159) \cup (64976..65007) \cup {11}
    \cup {plane * 65536 + 65534 : plane \in 0..16}
    \cup {plane * 65536 + 65535 : plane \in 0..16}

\* _replace_charref, the branch of a numeric reference, once int() has
\* returned.
replace_num(num) ==
    IF \E r \in invalid_charrefs : r[1] = num
    THEN <<chr((CHOOSE r \in invalid_charrefs : r[1] = num)[2])>>
    ELSE IF num \in 55296..57343 \/ num > 1114111 THEN <<chr(65533)>>
    ELSE IF num \in invalid_codepoints THEN <<>>
    ELSE <<chr(num)>>

\* The int() of a numeric reference: base 16 after "#x" or "#X", else 10.
charref_int(s) ==
    IF s[2] \in {"x", "X"} THEN int_from(SubSeq(s, 3, Len(s)), 16)
    ELSE int_from(Tail(s), 10)

\* _replace_charref: a number after "#", else a name.
replace_charref(s) ==
    IF s[1] # "#" THEN Returned(replace_named(s, longest_name(s, Len(s) - 1)))
    ELSE IF charref_int(s) = IntValueError THEN RaisedValueError
    ELSE Returned(replace_num(charref_int(s)))

RECURSIVE unescape(_)
\* s starts with "&" and _charref matches n characters after it.
unescape_at(s, n) ==
    IF n = 0 THEN concat(Returned(<<"&">>), unescape(Tail(s)))
    ELSE concat(replace_charref(SubSeq(s, 2, n + 1)), unescape(SubSeq(s, n + 2, Len(s))))

\* html.unescape: the text up to the first "&" stays, and so does all of it
\* when it has none.
unescape_from(s, amp) ==
    IF amp = 0 THEN Returned(s)
    ELSE concat(Returned(Before(s, amp)),
                unescape_at(SubSeq(s, amp, Len(s)), charref_len(After(s, amp))))

unescape(s) == unescape_from(s, Find(s, "&"))

(***************************************************************************)
(* HTML is a character sequence.  URL_REGEX (line 27) is                   *)
(*   <a href="(?P<url>https?://osu\.ppy\.sh/[^"]+)">(?P=url)</a>           *)
(* A match begins at a "<"; the url group is the longest run of characters *)
(* other than '"' from the scheme on, and it is followed by '">', the same *)
(* url and "</a>".                                                         *)
(***************************************************************************)
a_href == <<"<", "a", " ", "h", "r", "e", "f", "=", "\"">>

a_close == <<"<", "/", "a", ">">>

https_host == <<"h", "t", "t", "p", "s", ":", "/", "/", "o", "s", "u", ".", "p", "p", "y", ".", "s", "h">>

http_host == <<"h", "t", "t", "p", ":", "/", "/", "o", "s", "u", ".", "p", "p", "y", ".", "s", "h">>

\* https?://osu\.ppy\.sh at the start of s: its length, 0 when s starts
\* otherwise.
host_len(s) ==
    IF StartsWith(s, https_host) THEN Len(https_host)
    ELSE IF StartsWith(s, http_host) THEN Len(http_host)
    ELSE 0

NoMatch == [matched |-> FALSE, url |-> <<>>, len |-> 0]

Match(url, len) == [matched |-> TRUE, url |-> url, len |-> len]

\* '">', the url again and "</a>" after the url group.
match_rest(s, url) ==
    IF StartsWith(After(s, Len(url)), <<"\"", ">">> \o url \o a_close)
    THEN Match(url, Len(a_href) + Len(url) + 2 + Len(url) + Len(a_close))
    ELSE NoMatch

\* The url group in s, the text after 'href="': n is the length of scheme
\* and host, quote the index of the first '"'.  [^"]+ after the "/" of the
\* host takes at least one character.
match_url(s, n, quote) ==
    IF n = 0 \/ quote <= n + 2 \/ s[n + 1] # "/" THEN NoMatch
    ELSE match_rest(s, SubSeq(s, 1, quote - 1))

\* URL_REGEX.match at the start of s.
URL_REGEX_match(s) ==
    IF StartsWith(s, a_href)
    THEN match_url(After(s, Len(a_href)), host_len(After(s, Len(a_href))),
                   Find(After(s, Len(a_href)), "\""))
    ELSE NoMatch

\* URL_REGEX.findall(html_string): the url groups of the matches, which do
\* not overlap, from left to right.
RECURSIVE findall_from(_)
findall_at(s, m) ==
    IF m.matched THEN <<m.url>> \o findall_from(After(s, m.len))
    ELSE findall_from(Tail(s))

findall_next(s, lt) ==
    IF lt = 0 THEN <<>>
    ELSE findall_at(After(s, lt - 1), URL_REGEX_match(After(s, lt - 1)))

findall_from(s) == findall_next(s, Find(s, "<"))

URL_REGEX_findall(html_string) == findall_from(html_string)

\* The HTML of an anchor: <a href="HREF">TEXT</a>.
Anchor(href, text) == a_href \o href \o <<"\"", ">">> \o text \o a_close

\* The HTML of a link the platform made of a URL of the host that a user
\* wrote: the part of the URL after the host is href and text.
OsuAnchor(url) == Anchor(https_host \o url, https_host \o url)

\* The HTML of a sequence of anchors, one paragraph each.
RECURSIVE Html(_)
Html(anchors) ==
    IF anchors = <<>> THEN <<>>
    ELSE <<"<", "p", ">">> \o Head(anchors) \o <<"<", "/", "p", ">", "\n">>
         \o Html(Tail(anchors))

Maps(ms) == [tag |-> "ok", maps |-> ms]

MapsTypeError == [tag |-> "TypeError", maps |-> <<>>]

MapsValueError == [tag |-> "ValueError", maps |-> <<>>]

\* html.unescape(z) of line 155 raises.
RaiseValueError == [tag |-> "ValueError", map_type |-> "", map_id |-> <<>>]

\* Line 155, filter(None, ...): False is dropped; the first exception of
\* html.unescape or get_map_params leaves the function.
filter_maps(outs) ==
    IF \E i \in 1..Len(outs) : outs[i].tag \in {"TypeError", "ValueError"}
    THEN [tag |-> outs[CHOOSE i \in 1..Len(outs) :
                          /\ outs[i].tag \in {"TypeError", "ValueError"}
                          /\ \A j \in 1..(i - 1) : outs[j].tag \notin {"TypeError", "ValueError"}].tag,
          maps |-> <<>>]
    ELSE Maps(SelectSeq(outs, LAMBDA o : o.tag = "ref"))

\* get_map_params(html.unescape(z)) of a match z, once html.unescape has
\* run.  Scheme and host of z hold no "&" and come through html.unescape as
\* they are; get_map_params is given what follows them.
map_params(unescaped) ==
    IF unescaped.tag # "ok" THEN RaiseValueError
    ELSE get_map_params(After(unescaped.text, host_len(unescaped.text)))

map_params_of(urls) == [i \in 1..Len(urls) |-> map_params(unescape(urls[i]))]

get_maps_from_html(html_string) ==
    filter_maps(map_params_of(URL_REGEX_findall(html_string)))

\* Line 171 once html.unescape has run.
get_maps_from_unescaped(unescaped) ==
    IF unescaped.tag # "ok" THEN MapsValueError
    ELSE get_maps_from_html(unescaped.text)

\* get_maps_from_thing: a submission whose selftext_html is None or empty
\* has no maps.
get_maps_from_thing(thing) ==
    IF thing.type = "submission" /\ (~thing.body.present \/ thing.body.html = <<>>)
    THEN Maps(<<>>)
    ELSE get_maps_from_unescaped(unescape(thing.body.html))


(***************************************************************************)
(* The platform and the process.                                           *)
(***************************************************************************)
\* config.get("reddit", "username")
botname == "bot"

Authors == {"bot", "user"}

\* The URLs the bodies of the model's things link to.
url_b1 == <<"/", "b", "/", "1">>

url_u1 == <<"/", "u", "/", "1">>

Body(html_string) == [present |-> TRUE, html |-> html_string]

\* selftext_html of a link submission: None.
NoBody == [present |-> FALSE, html |-> <<>>]

\* A paragraph of text.
PlainBody == Body(Html(<<<<"h", "i">>>>))

MapBody == Body(Html(<<OsuAnchor(url_b1)>>))

\* A link to a user page next to a beatmap link.
UserPageBody == Body(Html(<<OsuAnchor(url_u1), OsuAnchor(url_b1)>>))

\* What a new thing of a stream may be: its author and its body.
ThingKinds(st) ==
    {[author |-> "user", body |-> MapBody],
     [author |-> "user", body |-> UserPageBody],
     [author |-> "bot", body |-> MapBody]}
    \cup (IF st = "comment"
          THEN {[author |-> "user", body |-> PlainBody]}
          ELSE {[author |-> "user", body |-> NoBody]})

Thing(st, id, kind) ==
    [id |-> id, type |-> st, author |-> kind.author, body |-> kind.body]

\* The bodies of the model's things.
Bodies == {kind.body : kind \in ThingKinds("comment") \cup ThingKinds("submission")}

\* get_maps_from_thing for a thing of each type with each of the bodies:
\* what it returns depends on the type and the body alone.
maps_from_thing ==
    [st \in StreamTypes |->
        [body \in Bodies |-> get_maps_from_thing([type |-> st, body |-> body])]]

\* limit=MAX_COMMENTS and limit=MAX_SUBMISSIONS of lines 234 and 236.
limit(st) == IF st = "comment" THEN MAX_COMMENTS ELSE MAX_SUBMISSIONS

\* A slip in line 227: one id more than the capacity.
seen_comments_maxlen_plus_one == MAX_COMMENTS + CommentMargin + 1

\* LimitedSet(MAX_COMMENTS + 100): line 227, with the margin scaled.
seen_comments_maxlen == MAX_COMMENTS + CommentMargin

\* LimitedSet(MAX_SUBMISSIONS + 50): line 228, with the margin scaled.
seen_submissions_maxlen == MAX_SUBMISSIONS + SubmissionMargin

(***************************************************************************)
(* limitedset.LimitedSet: a set of at most maxlen ids that forgets the id  *)
(* added first once it is full.  Adding an id it holds changes nothing.    *)
(***************************************************************************)
LimitedSet(maxlen) == [maxlen |-> maxlen, items |-> <<>>]

LimitedSet_contains(s, id) == \E i \in 1..Len(s.items) : s.items[i] = id

LimitedSet_add(s, id) ==
    IF LimitedSet_contains(s, id) THEN s
    ELSE IF Len(s.items) >= s.maxlen
    THEN [s EXCEPT !.items = Append(Tail(s.items), id)]
    ELSE [s EXCEPT !.items = Append(s.items, id)]

\* Before line 227 runs there is no set.
\* seen_comments and seen_submissions once the first n of lines 227 and 228
\* have run; a set that is not made yet holds nothing.
sets_made(n) ==
    [st \in StreamTypes |->
        IF st = "comment" /\ n >= 1 THEN LimitedSet(seen_comments_maxlen)
        ELSE IF st = "submission" /\ n >= 2 THEN LimitedSet(seen_submissions_maxlen)
        ELSE LimitedSet(0)]

NoSets == sets_made(0)

NoCall == [fn |-> "none"]


Init ==
    /\ pc = "boot"
    /\ config_exists \in BOOLEAN
    /\ logged_in = FALSE
    /\ exit_code = -1
    /\ stdout = ""
    /\ things = [st \in StreamTypes |-> <<>>]
    /\ next_id = [st \in StreamTypes |-> 0]
    /\ replies = [st \in StreamTypes |-> [i \in 1..MaxThings |-> 0]]
    /\ seen = NoSets
    /\ content = <<>>
    /\ idx = 1
    /\ walk_log = <<>>
    /\ walk_end = "none"
    /\ inserted = [st \in StreamTypes |-> <<>>]
    /\ call = NoCall

PollPc(st) == IF st = "comment" THEN "poll_comments" ELSE "poll_submissions"

WalkPc(st) == IF st = "comment" THEN "walk_comments" ELSE "walk_submissions"

\* What follows a thing_loop call in the try block: line 236 after line 234,
\* the sleep of line 238 after line 236.
after_walk(st) == IF st = "comment" THEN "poll_submissions" ELSE "sleep"

\* An exception no handler catches: the interpreter prints the traceback and
\* the process ends with a non-zero status, for which exit_code 1 stands
\* (1 after an Exception, death by SIGINT after a KeyboardInterrupt, 120
\* when the interpreter cannot flush stdout as it exits).
uncaught ==
    /\ pc' = "exited"
    /\ stdout' = "Traceback"
    /\ exit_code' = 1

\* Lines 239-241: print "Stopping the bot." and exit().  The handler runs
\* outside the try block.  When the print of line 240 raises (stdout is a
\* closed pipe) or a second interrupt arrives while it runs, no except
\* clause covers the exception and the process ends with a non-zero status
\* without the message; when the second interrupt arrives after the print
\* and before exit() has ended the process, or the message cannot be
\* flushed at exit, the message was printed and the status is non-zero.
except_KeyboardInterrupt ==
    \/ /\ pc' = "exited"
       /\ stdout' = "Stopping the bot."
       /\ exit_code' = 0
    \/ uncaught
    \/ /\ pc' = "exited"
       /\ stdout' = "Stopping the bot."
       /\ exit_code' = 1

\* Lines 242-247: print the exception, sleep 15 seconds, continue.  The
\* three prints of lines 243-245 run in the handler, outside the try block:
\* when one of them raises (stdout is a closed pipe, the text of the
\* exception cannot be encoded) or an interrupt arrives while they run, no
\* except clause covers the exception and the process ends without the
\* sleep of line 246.
except_Exception ==
    \/ /\ pc' = "backoff"
       /\ stdout' = stdout
       /\ exit_code' = exit_code
    \/ uncaught

(***************************************************************************)
(* Startup, lines 14-229.                                                  *)
(***************************************************************************)
\* Lines 14-17: no config.ini; two lines are printed and exit() is called.
\* A print of lines 15-16 that raises ends the process as any exception
\* outside the try block does.  When an interrupt arrives after the prints
\* and before exit() has ended the process, the message cannot be flushed
\* as the process exits, or exit is not defined (python -S), the message
\* was printed and the status is non-zero.
NoConfigExit ==
    /\ pc = "boot"
    /\ ~config_exists
    /\ \/ /\ pc' = "exited"
          /\ stdout' = "No config file found."
          /\ exit_code' = 0
       \/ uncaught
       \/ /\ pc' = "exited"
          /\ stdout' = "No config file found."
          /\ exit_code' = 1
    /\ UNCHANGED <<config_exists, logged_in, things, next_id, replies, seen,
                   content, idx, walk_log, walk_end, inserted, call>>

\* Lines 19-229 raise, all of them outside the try block: config.ini lacks
\* an option that lines 24-26 or 224-225 read, or the login of lines
\* 224-225 fails, and the process ends before r.login has returned; or
\* config.ini lacks the option line 229 reads, and the process ends with
\* the bot logged in and both sets made.
LoginFault ==
    /\ pc = "boot"
    /\ config_exists
    /\ uncaught
    /\ \/ /\ logged_in' = logged_in
          /\ seen' = seen
       \/ /\ logged_in' = TRUE
          /\ seen' = sets_made(2)
    /\ UNCHANGED <<config_exists, things, next_id, replies,
                   content, idx, walk_log, walk_end, inserted, call>>

\* Lines 19-229: the configuration is read, the bot logs in, the two sets
\* are made.
Startup ==
    /\ pc = "boot"
    /\ config_exists
    /\ logged_in' = TRUE
    /\ seen' = sets_made(2)
    /\ pc' = "poll_comments"
    /\ UNCHANGED <<config_exists, exit_code, stdout, things, next_id, replies,
                   content, idx, walk_log, walk_end, inserted, call>>

(***************************************************************************)
(* The platform: a new comment or submission appears at the head of its    *)
(* listing, which shows the newest limit(st) things.  The process reads a  *)
(* listing only when it starts a walk, so things are added there.          *)
(***************************************************************************)
NewThing(st) ==
    /\ pc = PollPc(st)
    /\ next_id["comment"] + next_id["submission"] < MaxThings
    /\ \E kind \in ThingKinds(st) :
          things' = [things EXCEPT ![st] =
                        SubSeq(<<Thing(st, next_id[st] + 1, kind)>> \o @, 1,
                               IF Len(@) + 1 > limit(st) THEN limit(st) ELSE Len(@) + 1)]
    /\ next_id' = [next_id EXCEPT ![st] = @ + 1]
    /\ UNCHANGED <<pc, config_exists, logged_in, exit_code, stdout, replies,
                   seen, content, idx, walk_log, walk_end, inserted, call>>


(***************************************************************************)
(* thing_loop, one thing at a time.  Each action is one pass through the   *)
(* body of the for loop, from line 210 to the continue, break, or          *)
(* exception that ends it.                                                 *)
(***************************************************************************)
\* subreddit.get_comments(limit=...) / get_new(limit=...): the walk starts.
Poll(st) ==
    /\ pc = PollPc(st)
    /\ content' = things[st]
    /\ idx' = 1
    /\ walk_log' = <<>>
    /\ walk_end' = "none"
    /\ pc' = WalkPc(st)
    /\ UNCHANGED <<config_exists, logged_in, exit_code, stdout, things,
                   next_id, replies, seen, inserted, call>>

\* The listing cannot be fetched: the exception leaves thing_loop.
FetchFault(st) ==
    /\ pc = PollPc(st)
    /\ content' = <<>>
    /\ idx' = 1
    /\ walk_log' = <<>>
    /\ walk_end' = "fault"
    /\ except_Exception
    /\ UNCHANGED <<config_exists, logged_in, things, next_id, replies, seen,
                   inserted, call>>

\* What one pass did to a thing: whether its id went into seen, whether
\* get_maps_from_thing, has_replied and format_comment were called for it,
\* whether a reply reached the platform, and how the pass ended.
Entry(thing, rec, ext, chk, cmp, pst, out) ==
    [id |-> thing.id, recorded |-> rec, extracted |-> ext, checked |-> chk,
     composed |-> cmp, posted |-> pst, outcome |-> out]

Visiting(st) == pc = WalkPc(st) /\ idx <= Len(content)

\* Line 210 found the id absent.
Fresh(st) == Visiting(st) /\ ~LimitedSet_contains(seen[st], content[idx].id)

\* The last n entries of a sequence.
last_of(s, n) == IF Len(s) > n THEN SubSeq(s, Len(s) - n + 1, Len(s)) ELSE s

\* Line 212: seen.add(thing.id).  The history keeps the ids handed to add,
\* one more of them than the set can hold.
record_seen(st) ==
    /\ seen' = [seen EXCEPT ![st] = LimitedSet_add(@, content[idx].id)]
    /\ inserted' = [inserted EXCEPT ![st] = last_of(Append(@, content[idx].id),
                                                    seen[st].maxlen + 1)]

\* Line 213
found(st) == maps_from_thing[content[idx].type][content[idx].body]

\* A slip in line 214: the test for an empty list is missing.
any_maps_or_none(f) == f.tag = "ok"

\* `if not found` of line 214 is false: a non-empty list.
any_maps(f) == f.tag = "ok" /\ Len(f.maps) > 0

\* `if not found` of line 214 is true: an empty list.
no_maps(f) == f.tag = "ok" /\ Len(f.maps) = 0

\* Line 214 passed: there are maps.
HasMaps(st) == Fresh(st) /\ any_maps(found(st))

\* A slip in has_replied: the bot's name is never found.
has_replied_never(st, thing) == FALSE

\* has_replied: the bot's name is among the authors of the thing's replies
\* (comment) or top-level comments (submission), as the platform has them now.
has_replied(st, thing) == replies[st][thing.id] > 0

\* A slip in line 191: the guard never fires.
replying_to_self_never(thing) == FALSE

\* Line 191: the thing's author is the bot's own account.
replying_to_self(thing) == thing.author = botname

\* Line 217 passed: the reply is to be composed and posted.
ToReply(st) == HasMaps(st) /\ ~has_replied(st, content[idx])

\* continue, or the end of the loop body: on to the next thing.
NextThing(e) ==
    /\ idx' = idx + 1
    /\ walk_log' = Append(walk_log, e)
    /\ UNCHANGED <<pc, walk_end, exit_code, stdout>>

\* break: thing_loop returns.
BreakWalk(st, e, why) ==
    /\ walk_log' = Append(walk_log, e)
    /\ walk_end' = why
    /\ pc' = after_walk(st)
    /\ UNCHANGED <<idx, exit_code, stdout>>

\* An exception leaves thing_loop and reaches the handler of line 242.
RaiseInWalk(e) ==
    /\ walk_log' = Append(walk_log, e)
    /\ walk_end' = "fault"
    /\ except_Exception
    /\ UNCHANGED idx

\* A slip in line 211: continue instead of break.
StopOnSeen_continue(st) ==
    /\ Visiting(st)
    /\ LimitedSet_contains(seen[st], content[idx].id)
    /\ NextThing(Entry(content[idx], FALSE, FALSE, FALSE, FALSE, FALSE, "seen"))
    /\ UNCHANGED <<config_exists, logged_in, things, next_id, replies, seen,
                   content, inserted, call>>

\* Lines 210-211: the id is in seen.
StopOnSeen(st) ==
    /\ Visiting(st)
    /\ LimitedSet_contains(seen[st], content[idx].id)
    /\ BreakWalk(st, Entry(content[idx], FALSE, FALSE, FALSE, FALSE, FALSE, "seen"), "seen")
    /\ UNCHANGED <<config_exists, logged_in, things, next_id, replies, seen,
                   content, inserted, call>>

\* A slip in lines 212-213: the id goes into seen after the extraction.
ExtractFault_unrecorded(st) ==
    /\ Fresh(st)
    /\ found(st).tag # "ok"
    /\ RaiseInWalk(Entry(content[idx], FALSE, TRUE, FALSE, FALSE, FALSE, "extract_fault"))
    /\ UNCHANGED <<config_exists, logged_in, things, next_id, replies, seen,
                   content, inserted, call>>

\* Line 213 raises: get_map_params met a URL it cannot take apart.
ExtractFault(st) ==
    /\ Fresh(st)
    /\ found(st).tag # "ok"
    /\ record_seen(st)
    /\ RaiseInWalk(Entry(content[idx], TRUE, TRUE, FALSE, FALSE, FALSE, "extract_fault"))
    /\ UNCHANGED <<config_exists, logged_in, things, next_id, replies, content, call>>

\* Lines 214-216: no maps.  The print of line 215 runs before the continue
\* of line 216; when it raises, the exception leaves thing_loop.
NoMaps(st) ==
    /\ Fresh(st)
    /\ no_maps(found(st))
    /\ record_seen(st)
    /\ \/ NextThing(Entry(content[idx], TRUE, TRUE, FALSE, FALSE, FALSE, "no_maps"))
       \/ RaiseInWalk(Entry(content[idx], TRUE, TRUE, FALSE, FALSE, FALSE, "print_fault"))
    /\ UNCHANGED <<config_exists, logged_in, things, next_id, replies, content, call>>

\* Line 217 raises: the platform query of has_replied fails; or has_replied
\* returns true and the print of line 218 raises before the break.
HasRepliedFault(st) ==
    /\ HasMaps(st)
    /\ record_seen(st)
    /\ RaiseInWalk(Entry(content[idx], TRUE, TRUE, TRUE, FALSE, FALSE, "check_fault"))
    /\ UNCHANGED <<config_exists, logged_in, things, next_id, replies, content, call>>

\* A slip in line 219: continue instead of break.
StopOnReplied_continue(st) ==
    /\ HasMaps(st)
    /\ has_replied(st, content[idx])
    /\ record_seen(st)
    /\ NextThing(Entry(content[idx], TRUE, TRUE, TRUE, FALSE, FALSE, "replied_before"))
    /\ UNCHANGED <<config_exists, logged_in, things, next_id, replies, content, call>>

\* Lines 217-219: the bot has replied before.
StopOnReplied(st) ==
    /\ HasMaps(st)
    /\ has_replied(st, content[idx])
    /\ record_seen(st)
    /\ BreakWalk(st, Entry(content[idx], TRUE, TRUE, TRUE, FALSE, FALSE, "replied_before"),
                 "replied")
    /\ UNCHANGED <<config_exists, logged_in, things, next_id, replies, content, call>>

\* Line 221, format_comment raises: get_beatmap_info got an error from the
\* metadata API or could not reach it, format_map could not render a record,
\* or the print of line 140 raised.
LookupFault(st) ==
    /\ ToReply(st)
    /\ record_seen(st)
    /\ RaiseInWalk(Entry(content[idx], TRUE, TRUE, TRUE, TRUE, FALSE, "lookup_fault"))
    /\ UNCHANGED <<config_exists, logged_in, things, next_id, replies, content, call>>

\* Lines 191-193: reply returns without posting.  The print of line 192
\* runs before the return; when it raises, the exception leaves thing_loop.
SelfSkip(st) ==
    /\ ToReply(st)
    /\ replying_to_self(content[idx])
    /\ record_seen(st)
    /\ \/ NextThing(Entry(content[idx], TRUE, TRUE, TRUE, TRUE, FALSE, "self"))
       \/ RaiseInWalk(Entry(content[idx], TRUE, TRUE, TRUE, TRUE, FALSE, "print_fault"))
    /\ UNCHANGED <<config_exists, logged_in, things, next_id, replies, content, call>>

\* One more reply of the bot on the platform (counted up to 2).
post(st, thing) ==
    [replies EXCEPT ![st][thing.id] = IF @ < 2 THEN @ + 1 ELSE @]

\* Lines 194-204: the reply is posted.
Reply(st) ==
    /\ ToReply(st)
    /\ ~replying_to_self(content[idx])
    /\ record_seen(st)
    /\ replies' = post(st, content[idx])
    /\ NextThing(Entry(content[idx], TRUE, TRUE, TRUE, TRUE, TRUE, "posted"))
    /\ UNCHANGED <<config_exists, logged_in, things, next_id, content, call>>

\* Lines 194-204 raise: a print of lines 194-197 raised before the post,
\* the platform refused the reply, the platform took it and the answer was
\* lost on the way back, or the print of line 204 raised after the post.
PostFault(st) ==
    /\ ToReply(st)
    /\ ~replying_to_self(content[idx])
    /\ record_seen(st)
    /\ \E taken \in BOOLEAN :
          /\ replies' = IF taken THEN post(st, content[idx]) ELSE replies
          /\ RaiseInWalk(Entry(content[idx], TRUE, TRUE, TRUE, TRUE, taken, "post_fault"))
    /\ UNCHANGED <<config_exists, logged_in, things, next_id, content, call>>

\* The for loop has no thing left: thing_loop returns.
EndWalk(st) ==
    /\ pc = WalkPc(st)
    /\ idx > Len(content)
    /\ walk_end' = "exhausted"
    /\ pc' = after_walk(st)
    /\ UNCHANGED <<config_exists, logged_in, exit_code, stdout, things, next_id,
                   replies, seen, content, idx, walk_log, inserted, call>>

(***************************************************************************)
(* The main loop around the two walks, lines 232-247.                      *)
(***************************************************************************)
\* The next iteration of `while True` begins: the walks of the last one are
\* history no more.
new_iteration ==
    /\ pc' = "poll_comments"
    /\ content' = <<>>
    /\ idx' = 1
    /\ walk_log' = <<>>
    /\ walk_end' = "none"

\* time.sleep(3) returns: the next iteration.
Wake ==
    /\ pc = "sleep"
    /\ new_iteration
    /\ UNCHANGED <<config_exists, logged_in, exit_code, stdout, things, next_id,
                   replies, seen, inserted, call>>

\* time.sleep(15) returns and `continue` starts the next iteration.
BackoffDone ==
    /\ pc = "backoff"
    /\ new_iteration
    /\ UNCHANGED <<config_exists, logged_in, exit_code, stdout, things, next_id,
                   replies, seen, inserted, call>>

\* Where the process is inside the try block of lines 233-238.
InTry == pc \in {"poll_comments", "walk_comments", "poll_submissions",
                 "walk_submissions", "sleep"}

\* KeyboardInterrupt inside the try block: the handler of line 239, which
\* ends the process with status 0 when nothing disturbs it.
InterruptInTry ==
    /\ InTry
    /\ except_KeyboardInterrupt
    /\ UNCHANGED <<config_exists, logged_in, things, next_id, replies, seen,
                   content, idx, walk_log, walk_end, inserted, call>>

\* KeyboardInterrupt inside a pass of thing_loop, once seen.add of line 212
\* has put the id into the set: before get_maps_from_thing is called,
\* while it runs, while has_replied runs, while the comment is composed or
\* reply returns for the bot's own thing, or while the post is under way,
\* which the platform may have taken by then.  The id stays in seen and the
\* handler of line 239 ends the process, with status 0 and its message when
\* nothing disturbs it.
InterruptInPass(st) ==
    /\ Fresh(st)
    /\ record_seen(st)
    /\ \E stage \in {"record", "extract", "check", "compose", "post"} : \E taken \in BOOLEAN :
          /\ stage = "check" => HasMaps(st)
          /\ stage \in {"compose", "post"} => ToReply(st)
          /\ stage = "post" => ~replying_to_self(content[idx])
          /\ taken => stage = "post"
          /\ replies' = IF taken THEN post(st, content[idx]) ELSE replies
          /\ walk_log' = Append(walk_log,
                                Entry(content[idx], TRUE, stage # "record",
                                      stage \in {"check", "compose", "post"},
                                      stage \in {"compose", "post"}, taken, "interrupted"))
    /\ except_KeyboardInterrupt
    /\ UNCHANGED <<config_exists, logged_in, things, next_id, content, idx,
                   walk_end, call>>

\* KeyboardInterrupt outside the try block: in the startup code of lines
\* 1-229, and at `while True` of line 232, where the loop turns between the
\* return of time.sleep(3) and the next entry of the try block.  No except
\* clause covers it.  In the startup code it arrives before r.login of
\* line 225 has returned, or, with the bot logged in, while line 227 or
\* line 228 makes its set (at line 229 both sets are made, as they are at
\* line 232).
InterruptOutsideTry ==
    /\ pc \in {"boot", "poll_comments", "sleep"}
    /\ uncaught
    /\ \/ /\ logged_in' = logged_in
          /\ seen' = seen
       \/ /\ pc = "boot"
          /\ config_exists
          /\ logged_in' = TRUE
          /\ \E n \in {0, 1} : seen' = sets_made(n)
    /\ UNCHANGED <<config_exists, things, next_id, replies,
                   content, idx, walk_log, walk_end, inserted, call>>

\* KeyboardInterrupt during time.sleep(15) of line 246: the sleep is inside
\* the handler of line 242, where no except clause covers it.
InterruptInBackoff ==
    /\ pc = "backoff"
    /\ uncaught
    /\ UNCHANGED <<config_exists, logged_in, things, next_id, replies, seen,
                   content, idx, walk_log, walk_end, inserted, call>>

\* The process is killed or has exited and is started again: everything it
\* held in memory is gone, the platform keeps its things and replies.
Restart ==
    /\ pc # "boot"
    /\ pc' = "boot"
    /\ config_exists' \in BOOLEAN
    /\ logged_in' = FALSE
    /\ exit_code' = -1
    /\ stdout' = ""
    /\ seen' = NoSets
    /\ content' = <<>>
    /\ idx' = 1
    /\ walk_log' = <<>>
    /\ walk_end' = "none"
    /\ inserted' = [st \in StreamTypes |-> <<>>]
    /\ UNCHANGED <<things, next_id, replies, call>>

Next ==
    \/ NoConfigExit
    \/ LoginFault
    \/ Startup
    \/ Wake
    \/ BackoffDone
    \/ InterruptInTry
    \/ InterruptOutsideTry
    \/ InterruptInBackoff
    \/ Restart
    \/ \E st \in StreamTypes :
          \/ NewThing(st)
          \/ Poll(st)
          \/ FetchFault(st)
          \/ StopOnSeen(st)
          \/ ExtractFault(st)
          \/ NoMaps(st)
          \/ HasRepliedFault(st)
          \/ StopOnReplied(st)
          \/ LookupFault(st)
          \/ SelfSkip(st)
          \/ Reply(st)
          \/ PostFault(st)
          \/ InterruptInPass(st)
          \/ EndWalk(st)

Spec == Init /\ [][Next]_vars


(***************************************************************************)
(* The extractor on its own: get_map_params on URLs of the four shapes of  *)
(* its docstring and on other URLs of the host, and get_maps_from_html on  *)
(* short sequences of anchors.                                             *)
(***************************************************************************)
IdChars == {"1", "2", "x"}

\* The ids a URL is built around: every string over IdChars up to MaxIdLen.
Ids == UNION {[1..n -> IdChars] : n \in 0..MaxIdLen}

p_beatmap == <<"/", "p", "/", "b", "e", "a", "t", "m", "a", "p">>

PathShapes == {"/b/<id>", "/s/<id>"}

QueryShapes == {"/p/beatmap?b=<id>", "/p/beatmap?s=<id>"}

\* The URL of a shape around an id; `more` appends "&m=0".
ShapeUrl(shape, id, more) ==
    (CASE shape = "/b/<id>" -> <<"/", "b", "/">>
       [] shape = "/s/<id>" -> <<"/", "s", "/">>
       [] shape = "/p/beatmap?b=<id>" -> p_beatmap \o <<"?", "b", "=">>
       [] shape = "/p/beatmap?s=<id>" -> p_beatmap \o <<"?", "s", "=">>)
    \o id \o (IF more THEN <<"&", "m", "=", "0">> ELSE <<>>)

\* URLs of the host that have none of the four shapes.
OtherUrls ==
    {url_u1, p_beatmap, p_beatmap \o <<"?", "m", "=", "0">>, <<"/", "b">>}

MapParamsCall(shape, id, more, url) ==
    [fn |-> "get_map_params", shape |-> shape, id |-> id, more |-> more,
     url |-> url, done |-> FALSE, out |-> RetFalse]

\* /p/beatmap URLs that carry both parameters, in either order.
BothShapes == {"/p/beatmap?b=<id>&s=<id>", "/p/beatmap?s=<id>&b=<id>"}

BothUrl(shape, b_id, s_id) ==
    IF shape = "/p/beatmap?b=<id>&s=<id>"
    THEN p_beatmap \o <<"?", "b", "=">> \o b_id \o <<"&", "s", "=">> \o s_id
    ELSE p_beatmap \o <<"?", "s", "=">> \o s_id \o <<"&", "b", "=">> \o b_id

BothCall(shape, b_id, s_id) ==
    [fn |-> "get_map_params", shape |-> shape, id |-> b_id, s_id |-> s_id,
     more |-> FALSE, url |-> BothUrl(shape, b_id, s_id), done |-> FALSE, out |-> RetFalse]

\* The calls of get_map_params the extractor is run on.
IsMapParamsCall(c) ==
    \/ \E sh \in PathShapes, id \in Ids : c = MapParamsCall(sh, id, FALSE, ShapeUrl(sh, id, FALSE))
    \/ \E sh \in QueryShapes, id \in Ids, m \in BOOLEAN :
          c = MapParamsCall(sh, id, m, ShapeUrl(sh, id, m))
    \/ \E u \in OtherUrls : c = MapParamsCall("other", <<>>, FALSE, u)
    \/ \E sh \in BothShapes, b_id \in Ids, s_id \in Ids : c = BothCall(sh, b_id, s_id)

\* The anchors of the HTML inputs, as they are after line 171 has unescaped
\* the body once: links to beatmaps, sets and other pages of the host, an
\* anchor whose text is not its href, references that line 155 resolves
\* (the named ones with and without ";"), an href that holds the end of an
\* anchor, and a link to another host.
AnchorPool ==
    {OsuAnchor(url_b1),
     OsuAnchor(<<"/", "s", "/", "2">>),
     OsuAnchor(<<"/", "b", "/", "x">>),
     OsuAnchor(url_u1),
     OsuAnchor(p_beatmap \o <<"?", "m", "=", "0">>),
     OsuAnchor(p_beatmap \o <<"?", "b", "=", "1", "&", "a", "m", "p", ";", "m", "=", "0">>),
     Anchor(https_host \o <<"/", "b", "/", "2">>, https_host \o <<"/", "s", "/", "2">>),
     OsuAnchor(<<"/", "b", "/", "&", "s", "u", "p", "2">>),
     OsuAnchor(<<"/", "b", "/", "&", "#", "x", "1", "b", "b", "1", ";">>),
     OsuAnchor(<<"/", "b", "/", "1", "&", "#", "1", "0", ";">>),
     OsuAnchor(<<"/", "b", "/", "1", "&", "n", "o", "t">>),
     Anchor(https_host \o <<"/", "s", "/", "1", "\"", ">">> \o https_host
              \o <<"/", "s", "/", "1">> \o a_close,
            https_host \o <<"/", "s", "/", "1">>),
     Anchor(<<"h", "t", "t", "p", "s", ":", "/", "/", "o", "s", "u", ".", "p", "p", "y",
              ".", "s", "h", ".", "e", "x", "a", "m", "p", "l", "e">> \o url_b1,
            <<"h", "t", "t", "p", "s", ":", "/", "/", "o", "s", "u", ".", "p", "p", "y",
              ".", "s", "h", ".", "e", "x", "a", "m", "p", "l", "e">> \o url_b1)}

\* The bodies get_maps_from_html is run on: up to MaxAnchors anchors.
AnchorLists == UNION {[1..n -> AnchorPool] : n \in 0..MaxAnchors}

HtmlCall(h) ==
    [fn |-> "get_maps_from_html", html |-> h, done |-> FALSE, out |-> Maps(<<>>)]

InitExtract ==
    /\ pc = "boot"
    /\ config_exists = TRUE
    /\ logged_in = FALSE
    /\ exit_code = -1
    /\ stdout = ""
    /\ things = [st \in StreamTypes |-> <<>>]
    /\ next_id = [st \in StreamTypes |-> 0]
    /\ replies = [st \in StreamTypes |-> [i \in 1..MaxThings |-> 0]]
    /\ seen = NoSets
    /\ content = <<>>
    /\ idx = 1
    /\ walk_log = <<>>
    /\ walk_end = "none"
    /\ inserted = [st \in StreamTypes |-> <<>>]
    /\ \/ IsMapParamsCall(call)
       \/ \E anchors \in AnchorLists : call = HtmlCall(Html(anchors))

CallGetMapParams ==
    /\ call.fn = "get_map_params"
    /\ ~call.done
    /\ call' = [call EXCEPT !.done = TRUE, !.out = get_map_params(call.url)]
    /\ UNCHANGED loop_vars

CallGetMapsFromHtml ==
    /\ call.fn = "get_maps_from_html"
    /\ ~call.done
    /\ call' = [call EXCEPT !.done = TRUE, !.out = get_maps_from_html(call.html)]
    /\ UNCHANGED loop_vars

NextExtract == CallGetMapParams \/ CallGetMapsFromHtml

SpecExtract == InitExtract /\ [][NextExtract]_vars

(***************************************************************************)
(* Extraction: claims C9 and C10.                                          *)
(***************************************************************************)
\* An id that is all digits.
NumericId(id) == Len(id) > 0 /\ \A i \in 1..Len(id) : id[i] \in Digits

\* The kind a shape stands for: b for an item, s for a collection.
ShapeKind(shape) ==
    IF shape \in {"/b/<id>", "/p/beatmap?b=<id>"} THEN "b" ELSE "s"

\* C9: for each of the four URL shapes and every id, get_map_params returns
\* exactly (kind, id) when the id is all digits and returns False, no
\* reference, when it is not.
C9_ShapeRoundTrip ==
    (call.fn = "get_map_params" /\ call.done /\ call.shape \in PathShapes \cup QueryShapes)
    => IF NumericId(call.id)
       THEN call.out = Ref(ShapeKind(call.shape), call.id)
       ELSE call.out = RetFalse

\* The references of the anchors that URL_REGEX matches and that have one
\* of the four shapes with a numeric id, in order.
valid_refs(html_string) ==
    SelectSeq(map_params_of(URL_REGEX_findall(html_string)), LAMBDA o : o.tag = "ref")

\* C10: an anchor URL of the host that has none of the four shapes is
\* dropped silently: get_maps_from_html raises nothing and returns the
\* references of the other anchors.
C10_UnrecognizedDropped ==
    (call.fn = "get_maps_from_html" /\ call.done)
    => call.out = Maps(valid_refs(call.html))

\* A finished call of get_map_params on a URL with both parameters.
BothCalled == call.fn = "get_map_params" /\ call.done /\ call.shape \in BothShapes

\* C15: on a /p/beatmap URL that carries both b and s, b alone decides
\* the result: the item reference of b's id when that id is numeric and no
\* reference when it is not; a collection reference never comes out.
C15_BFirst_Original ==
    BothCalled
    => IF NumericId(call.id) THEN call.out = Ref("b", call.id) ELSE call.out = RetFalse

\* C15 as the code has it: b decides alone when its value is not blank
\* (parse_qs drops a parameter with a blank value); a collection reference
\* comes out only when b's value is blank, and it is then s's id.
C15_BFirst ==
    BothCalled
    => /\ call.id # <<>>
          => IF NumericId(call.id) THEN call.out = Ref("b", call.id)
             ELSE call.out = RetFalse
       /\ (call.out.tag = "ref" /\ call.out.map_type = "s")
          => (call.id = <<>> /\ call.out = Ref("s", call.s_id))

\* b's id is not numeric, s's id is, and nothing comes out.
C15_Witness ==
    /\ BothCalled
    /\ call.id # <<>>
    /\ ~NumericId(call.id)
    /\ NumericId(call.s_id)
    /\ call.out = RetFalse



(***************************************************************************)
(* The loop: claims C1 to C8.                                              *)
(***************************************************************************)
\* The stream the current (or last) walk is over.
WalkType == IF Len(content) > 0 THEN content[1].type ELSE "comment"

\* The ids a set holds.
Held(s) == {s.items[i] : i \in 1..Len(s.items)}

\* The ids this walk has put into its set.
RecordedInWalk == {walk_log[k].id : k \in {j \in 1..Len(walk_log) : walk_log[j].recorded}}

\* The ids that were in the set before this walk came to them.
AlreadySeen == Held(seen[WalkType]) \ RecordedInWalk

\* The position in the listing of the first thing already seen (one past
\* the end when there is none).
FirstSeenPos ==
    IF \E k \in 1..Len(content) : content[k].id \in AlreadySeen
    THEN CHOOSE k \in 1..Len(content) :
            /\ content[k].id \in AlreadySeen
            /\ \A j \in 1..(k - 1) : content[j].id \notin AlreadySeen
    ELSE Len(content) + 1

\* Nothing was done to the thing of a log entry.
Untouched(e) ==
    ~e.recorded /\ ~e.extracted /\ ~e.checked /\ ~e.composed /\ ~e.posted

\* C1: the bot posts at most one reply to any comment or submission, over
\* any sequence of iterations, faults with their backoff, and restarts.
C1_AtMostOneReply ==
    \A st \in StreamTypes : \A i \in 1..MaxThings : replies[st][i] <= 1

\* C1's case: a thing the bot has replied to is met again by a process that
\* does not remember it, and the walk stops there.
C1_Witness ==
    /\ walk_end = "replied"
    /\ replies[WalkType][walk_log[Len(walk_log)].id] = 1

\* C2 as stated: in one walk every thing before the first already-seen one
\* is recorded and processed, and the first already-seen thing and all
\* after it are left alone.
C2_StopOnSeen_Original ==
    walk_end \in {"seen", "replied", "fault", "exhausted"}
    => /\ \A k \in 1..(FirstSeenPos - 1) :
             k <= Len(walk_log) /\ walk_log[k].recorded /\ walk_log[k].extracted
       /\ \A k \in FirstSeenPos..Len(walk_log) : Untouched(walk_log[k])

\* C2, amended: every thing before the first already-seen one is recorded
\* and processed unless the walk ended before it, at a thing the bot had
\* replied to or at a fault, or an interrupt ended the process, which it
\* can do between the recording of a thing and its processing; the first
\* already-seen thing and all after it are neither recorded, extracted
\* from, checked nor replied to.
C2_StopOnSeen ==
    /\ Len(walk_log) <= FirstSeenPos
    /\ \A k \in FirstSeenPos..Len(walk_log) : Untouched(walk_log[k])
    /\ \A k \in 1..Len(walk_log) :
          k < FirstSeenPos
          => /\ walk_log[k].recorded
             /\ \/ walk_log[k].extracted
                \/ /\ walk_log[k].outcome = "interrupted"
                   /\ k = Len(walk_log)
                   /\ pc = "exited"
    /\ walk_end \in {"seen", "exhausted"}
       => \A k \in 1..(FirstSeenPos - 1) :
             k <= Len(walk_log) /\ walk_log[k].recorded /\ walk_log[k].extracted

\* C2's case: a walk processed a new thing and stopped at the seen thing
\* behind it.
C2_Witness ==
    /\ walk_end = "seen"
    /\ Len(walk_log) = 2
    /\ walk_log[1].recorded
    /\ walk_log[2].outcome = "seen"

\* C3: at a new thing with references that the bot has replied to, the id
\* is recorded, no reply is composed or posted, and the walk ends there:
\* nothing later in the listing is recorded, checked or replied to.
C3_StopOnReplied ==
    \A k \in 1..Len(walk_log) :
        walk_log[k].outcome = "replied_before"
        => /\ k = Len(walk_log)
           /\ walk_end = "replied"
           /\ pc # WalkPc(WalkType)
           /\ walk_log[k].recorded
           /\ LimitedSet_contains(seen[WalkType], walk_log[k].id)
           /\ ~walk_log[k].composed
           /\ ~walk_log[k].posted
           /\ replies[WalkType][walk_log[k].id] = 1

\* C3's case: the walk stopped at a replied-to thing with an older thing
\* behind it in the listing.
C3_Witness ==
    /\ walk_end = "replied"
    /\ Len(content) > Len(walk_log)
    /\ ~LimitedSet_contains(seen[WalkType], content[Len(content)].id)

\* The k-th pass of the walk came to reply with a thing of the bot's own:
\* it ended at lines 191-193, or an interrupt ended it once the comment
\* was composed.
SkippedAt(k) ==
    /\ content[k].author = botname
    /\ walk_log[k].composed
    /\ walk_log[k].outcome \in {"self", "print_fault", "interrupted"}

\* The walk went on after its k-th pass.
WentOn(k) == idx >= k + 1 /\ (k = Len(walk_log) => walk_end \in {"none", "exhausted"})

\* C4 as stated: a thing whose author is the bot's account is never replied
\* to; the skip raises nothing and the walk goes on with the next thing.
C4_SelfReplyGuard_Original ==
    /\ \A st \in StreamTypes : \A k \in 1..Len(things[st]) :
          things[st][k].author = botname => replies[st][things[st][k].id] = 0
    /\ \A k \in 1..Len(walk_log) :
          /\ content[k].author = botname => ~walk_log[k].posted
          /\ SkippedAt(k) => (walk_log[k].outcome = "self" /\ WentOn(k))

\* C4 as the code has it: a thing whose author is the bot's account is
\* never replied to.  The skip prints a line (line 192) and returns, and
\* the walk goes on with the next thing, unless the print raises, which
\* aborts the walk as any fault does, or an interrupt ends the process in
\* that pass.
C4_SelfReplyGuard ==
    /\ \A st \in StreamTypes : \A k \in 1..Len(things[st]) :
          things[st][k].author = botname => replies[st][things[st][k].id] = 0
    /\ \A k \in 1..Len(walk_log) :
          /\ content[k].author = botname => ~walk_log[k].posted
          /\ SkippedAt(k)
             => \/ walk_log[k].outcome = "self" /\ WentOn(k)
                \/ /\ walk_log[k].outcome = "print_fault"
                   /\ k = Len(walk_log)
                   /\ walk_end = "fault"
                   /\ pc \in {"backoff", "exited"}
                \/ /\ walk_log[k].outcome = "interrupted"
                   /\ k = Len(walk_log)
                   /\ pc = "exited"

\* C4's case: the walk skipped a thing of the bot's that has references and
\* went on to the next thing.
C4_Witness ==
    \E k \in 1..Len(walk_log) :
        /\ walk_log[k].outcome = "self"
        /\ walk_log[k].composed
        /\ Len(walk_log) > k

\* The last n distinct ids of a history of insertions.
LastOccurrence(log, id) ==
    CHOOSE i \in 1..Len(log) : log[i] = id /\ \A j \in (i + 1)..Len(log) : log[j] # id

LastDistinct(log, n) ==
    {log[i] : i \in {j \in 1..Len(log) :
        /\ j = LastOccurrence(log, log[j])
        /\ Cardinality({log[m] : m \in (j + 1)..Len(log)}) < n}}

\* The capacities the claim gives the two sets.
ClaimedCapacity(st) ==
    IF st = "comment" THEN MAX_COMMENTS + CommentMargin
    ELSE MAX_SUBMISSIONS + SubmissionMargin

\* C5: a RecencySet never holds more ids than its capacity, it holds each
\* of the last capacity-many distinct ids inserted, and the id inserted
\* before those is the one it has dropped.
C5_RecencySetBounded ==
    \A st \in StreamTypes :
        /\ Len(seen[st].items) <= ClaimedCapacity(st)
        /\ Cardinality(Held(seen[st])) = Len(seen[st].items)
        /\ LastDistinct(inserted[st], ClaimedCapacity(st)) \subseteq Held(seen[st])
        /\ Len(inserted[st]) > ClaimedCapacity(st)
           => \A i \in 1..(Len(inserted[st]) - ClaimedCapacity(st)) :
                 inserted[st][i] \in LastDistinct(inserted[st], ClaimedCapacity(st))
                 \/ inserted[st][i] \notin Held(seen[st])

\* C5's case: more ids than the capacity have been inserted and the set is
\* full without the oldest of them.
C5_Witness ==
    \E st \in StreamTypes :
        /\ Len(inserted[st]) > ClaimedCapacity(st)
        /\ Len(seen[st].items) = ClaimedCapacity(st)
        /\ inserted[st][1] \notin Held(seen[st])

\* C6: a fault of the listing fetch, extraction, has_replied, the metadata
\* lookup or posting never ends the process: the backoff sleep follows, and
\* after it a new iteration that starts with the comments.
C6_FaultIsolation ==
    [][/\ (walk_end' = "fault" /\ walk_end # "fault")
          => (pc' = "backoff" /\ exit_code' = -1)
       /\ (pc = "backoff" /\ pc' \notin {"backoff", "exited", "boot"})
          => (pc' = "poll_comments" /\ walk_log' = <<>> /\ exit_code' = -1)]_vars

\* C7: without config.ini the process prints a message and exits with a
\* non-zero status before it logs in or touches a stream.
C7_NoConfigExitsNonZero ==
    (pc = "exited" /\ stdout = "No config file found.")
    => (exit_code # 0 /\ ~logged_in /\ content = <<>> /\ walk_log = <<>>)

\* C8: an interrupt that arrives while the loop runs, in a walk, in the
\* short sleep or in the backoff sleep, ends the process cleanly with
\* status 0.
C8_InterruptExitsZero ==
    [][(\/ InterruptInTry
        \/ \E st \in StreamTypes : InterruptInPass(st)
        \/ InterruptInBackoff
        \/ (pc # "boot" /\ InterruptOutsideTry))
       => (pc' = "exited" /\ exit_code' = 0 /\ stdout' = "Stopping the bot.")]_vars


(***************************************************************************)
(* The composer: remove_dups, format_map and format_comment.  A text is    *)
(* modelled by its parts and its length: the composer only concatenates    *)
(* and measures.  What osu!api answers for a reference is an input, and so *)
(* is the length of the block the template renders from that answer.       *)
(***************************************************************************)
\* Most distinct references in a composer input.
MaxMaps == 3

\* The ceiling of line 139.
CharLimit == 10000

\* len(line_break), line 130.
line_break_len == 2

\* What get_beatmap_info does for a reference: it raises (error response or
\* transport failure), or returns a list of n records.  raises is the line
\* of format_map that raises on the first record of the list under the
\* configuration, 0 when every line runs: 93 when the first element is no
\* mapping, 97 when the record lacks the _key field of a section of
\* template_extras.ini or its value is no option of the section, 99 to 101
\* when difficultyrating, hit_length or total_length is missing or no
\* number, 105 when one of the five text fields is missing or no string,
\* 108 and 110 when the template names a field the record lacks.  text_len
\* is the length of the template's output when every line runs.
ApiError == [tag |-> "error", n |-> 0, text_len |-> 0, raises |-> 0]

ApiRecords(n, text_len, raises) ==
    [tag |-> "records", n |-> n, text_len |-> text_len, raises |-> raises]

get_beatmap_info(api, ref) == api[ref]

Block(ref, kind, len) == [ref |-> ref, kind |-> kind, len |-> len]

FormatRaised == [tag |-> "raise", block |-> Block(RetFalse, "", 0)]

Formatted(b) == [tag |-> "ok", block |-> b]

\* len("Invalid map.") = 12 and len("Invalid mapset.") = 15, line 92.
invalid_map(ref) ==
    IF ref.map_type = "s" THEN Block(ref, "Invalid mapset.", 15)
    ELSE Block(ref, "Invalid map.", 12)

\* Lines 93-110: the first record is copied, extended, converted and
\* sanitised, and the template for one map or for a set is filled in; a
\* line that raises ends format_map.
render(ref, map_info) ==
    IF map_info.raises # 0 THEN FormatRaised
    ELSE IF map_info.n = 1 THEN Formatted(Block(ref, "map", map_info.text_len))
    ELSE Formatted(Block(ref, "mapset", map_info.text_len))

\* A slip in lines 91-92: the test for an empty list is missing, and
\* map_info[0] of line 93 raises.
format_map_of_unguarded(ref, map_info) ==
    IF map_info.tag = "error" \/ map_info.n = 0 THEN FormatRaised
    ELSE render(ref, map_info)

\* Lines 90-110 on what get_beatmap_info did.
format_map_of(ref, map_info) ==
    IF map_info.tag = "error" THEN FormatRaised
    ELSE IF map_info.n = 0 THEN Formatted(invalid_map(ref))
    ELSE render(ref, map_info)

format_map(api, ref) == format_map_of(ref, get_beatmap_info(api, ref))

RECURSIVE remove_dups_from(_, _)
remove_dups_from(iterable, seen_items) ==
    IF iterable = <<>> THEN <<>>
    ELSE IF Head(iterable) \in seen_items
         THEN remove_dups_from(Tail(iterable), seen_items)
         ELSE <<Head(iterable)>>
              \o remove_dups_from(Tail(iterable), seen_items \cup {Head(iterable)})

no_remove_dups(iterable) == iterable

remove_dups(iterable) == remove_dups_from(iterable, {})

\* The [template] section of config.ini as the composer reads it: the
\* lengths of header and footer, and sep when the section has one.
Template(header_len, footer_len, has_sep, sep_len) ==
    [header_len |-> header_len, footer_len |-> footer_len,
     has_sep |-> has_sep, sep_len |-> sep_len]

base_len_without_breaks(tmpl) == tmpl.header_len + tmpl.footer_len

base_len(tmpl) == tmpl.header_len + tmpl.footer_len + line_break_len * 2

sep_len(tmpl) == IF tmpl.has_sep THEN tmpl.sep_len ELSE line_break_len

BodyText(blocks, len) == [blocks |-> blocks, len |-> len]

CommentRaised == [tag |-> "raise", blocks |-> <<>>, length |-> 0]

\* Line 146: header, line break, body, line break, footer.
Comment(tmpl, body) ==
    [tag |-> "ok", blocks |-> body.blocks,
     length |-> tmpl.header_len + line_break_len + body.len
                + line_break_len + tmpl.footer_len]

over_limit_or_at(base, body_len, sep, next_len) ==
    base + body_len + sep + next_len >= CharLimit

over_limit(base, body_len, sep, next_len) ==
    base + body_len + sep + next_len > CharLimit

\* Lines 142-144: the separator is written when the body is not empty.
append_block(body, sep, next_map) ==
    BodyText(Append(body.blocks, next_map),
         body.len + (IF body.len > 0 THEN sep ELSE 0) + next_map.len)

\* The prints of format_comment and reply, by their lines (194 stands for
\* the four prints of lines 194-197).  print_fault, an input of a call, is
\* the line of the print that raises when the call comes to it, 0 when no
\* print raises.
PrintLines == {140, 192, 194, 204}

RECURSIVE compose(_, _, _, _, _)
\* A slip in line 141: continue instead of break.
at_limit_continue(api, tmpl, rest, body, print_fault) ==
    compose(api, tmpl, rest, body, print_fault)

\* Lines 140-141 and 146: the print, the break, and the return after the
\* loop.
at_limit(api, tmpl, rest, body, print_fault) ==
    IF print_fault = 140 THEN CommentRaised ELSE Comment(tmpl, body)

\* Lines 138-144 with the block of the next reference.
compose_next(api, tmpl, rest, body, next, print_fault) ==
    IF next.tag = "raise" THEN CommentRaised
    ELSE IF over_limit(base_len(tmpl), body.len, sep_len(tmpl), next.block.len)
         THEN at_limit(api, tmpl, rest, body, print_fault)
         ELSE compose(api, tmpl, rest, append_block(body, sep_len(tmpl), next.block),
                      print_fault)

\* The for loop of lines 137-144 and the return of line 146.
compose(api, tmpl, maps, body, print_fault) ==
    IF maps = <<>> THEN Comment(tmpl, body)
    ELSE compose_next(api, tmpl, Tail(maps), body, format_map(api, Head(maps)),
                      print_fault)

format_comment(api, tmpl, maps, print_fault) ==
    compose(api, tmpl, remove_dups(maps), BodyText(<<>>, 0), print_fault)

Replied(raised, posted, comment) == [raised |-> raised, posted |-> posted, text |-> comment]

\* Line 221, reply(thing, format_comment(found)): the comment is composed
\* first; reply (lines 189-204) prints and returns for the bot's own thing,
\* and otherwise prints the text, hands it to the platform, which posts it
\* or raises, and prints once more.  A print that raises ends reply: the
\* print of line 204 does after the platform has posted the text.
reply_comment(thing, comment, platform, print_fault) ==
    IF comment.tag = "raise" THEN Replied(TRUE, FALSE, comment)
    ELSE IF replying_to_self(thing) THEN Replied(print_fault = 192, FALSE, comment)
    ELSE IF print_fault = 194 THEN Replied(TRUE, FALSE, comment)
    ELSE IF platform # "ok" THEN Replied(TRUE, FALSE, comment)
    ELSE Replied(print_fault = 204, TRUE, comment)

(***************************************************************************)
(* The composer on its own: format_comment on short reference lists under  *)
(* every answer of osu!api for each reference, and on lists of distinct    *)
(* references whose blocks all have one size near the sizes at which one,  *)
(* two or three blocks fill the ceiling; and line 221, the composed text   *)
(* handed to reply.                                                        *)
(***************************************************************************)
RefSeq == <<Ref("b", <<"1">>), Ref("s", <<"1">>), Ref("b", <<"2">>)>>

RefPool == {RefSeq[i] : i \in 1..Len(RefSeq)}

MapLists == UNION {[1..n -> RefPool] : n \in 0..MaxMaps}

\* An error, an empty list, one record (a long block), two records, and a
\* record whose genre_id is no option of a section of template_extras.ini.
ApiAnswers ==
    {ApiError, ApiRecords(0, 0, 0), ApiRecords(1, 4997, 0), ApiRecords(2, 30, 0),
     ApiRecords(1, 30, 97)}

\* The last template is longer than the ceiling before any block is added.
TemplatePool ==
    {Template(0, 0, FALSE, 0), Template(1, 0, FALSE, 0), Template(0, 1, TRUE, 0),
     Template(0, 0, TRUE, 3), Template(5000, 4997, FALSE, 0)}

\* Block sizes around a third, a half and the whole of the ceiling.
UniformLens == (3328..3334) \cup (4994..4999) \cup (9990..9997)

FirstRefs(n) == SubSeq(RefSeq, 1, n)

Min(a, b) == IF a < b THEN a ELSE b

CommentCall(api, tmpl, maps, uniform, print_fault) ==
    [fn |-> "format_comment", api |-> api, tmpl |-> tmpl, maps |-> maps,
     uniform |-> uniform, print_fault |-> print_fault, done |-> FALSE,
     out |-> CommentRaised]

\* The calls of format_comment the composer is run on: every answer of the
\* lookup for every list of references, and the uniform lists.
IsCommentCall(c) ==
    \/ \E api \in [RefPool -> ApiAnswers], tmpl \in TemplatePool, maps \in MapLists,
          print_fault \in {0, 140} :
          c = CommentCall(api, tmpl, maps, FALSE, print_fault)
    \/ \E len \in UniformLens, tmpl \in TemplatePool, n \in 0..Min(MaxMaps, Len(RefSeq)),
          print_fault \in {0, 140} :
          c = CommentCall([ref \in RefPool |-> ApiRecords(1, len, 0)], tmpl, FirstRefs(n),
                          TRUE, print_fault)

ReplyCall(author, platform, api, maps, print_fault) ==
    [fn |-> "reply", thing |-> [author |-> author], platform |-> platform,
     api |-> api, tmpl |-> Template(0, 0, FALSE, 0), maps |-> maps,
     print_fault |-> print_fault, done |-> FALSE,
     out |-> Replied(FALSE, FALSE, CommentRaised)]

\* The calls of line 221 the composer is run on.
IsReplyCall(c) ==
    \E author \in Authors, platform \in {"ok", "fault"}, api \in [RefPool -> ApiAnswers],
       maps \in MapLists \ {<<>>}, print_fault \in {0} \cup PrintLines :
       c = ReplyCall(author, platform, api, maps, print_fault)

InitCompose ==
    /\ pc = "boot"
    /\ config_exists = TRUE
    /\ logged_in = FALSE
    /\ exit_code = -1
    /\ stdout = ""
    /\ things = [st \in StreamTypes |-> <<>>]
    /\ next_id = [st \in StreamTypes |-> 0]
    /\ replies = [st \in StreamTypes |-> [i \in 1..MaxThings |-> 0]]
    /\ seen = NoSets
    /\ content = <<>>
    /\ idx = 1
    /\ walk_log = <<>>
    /\ walk_end = "none"
    /\ inserted = [st \in StreamTypes |-> <<>>]
    /\ (IsCommentCall(call) \/ IsReplyCall(call))

CallFormatComment ==
    /\ call.fn = "format_comment"
    /\ ~call.done
    /\ call' = [call EXCEPT !.done = TRUE,
                            !.out = format_comment(call.api, call.tmpl, call.maps,
                                                   call.print_fault)]
    /\ UNCHANGED loop_vars

CallReply ==
    /\ call.fn = "reply"
    /\ ~call.done
    /\ call' = [call EXCEPT !.done = TRUE,
                            !.out = reply_comment(call.thing,
                                        format_comment(call.api, call.tmpl, call.maps,
                                                       call.print_fault),
                                        call.platform, call.print_fault)]
    /\ UNCHANGED loop_vars

NextCompose == CallFormatComment \/ CallReply

SpecCompose == InitCompose /\ [][NextCompose]_vars

(***************************************************************************)
(* Composition: claims C11, C12, C16, C17 and C18.                         *)
(***************************************************************************)
DistinctRefs(maps) == {maps[i] : i \in 1..Len(maps)}

FirstPos(maps, ref) == CHOOSE i \in 1..Len(maps) :
    maps[i] = ref /\ \A j \in 1..(i - 1) : maps[j] # ref

NoLookupError(api, maps) == \A i \in 1..Len(maps) : api[maps[i]].tag # "error"

\* The lookup of the reference returns a record that format_map cannot
\* render.
RenderFault(api, ref) ==
    api[ref].tag = "records" /\ api[ref].n > 0 /\ api[ref].raises # 0

NoRenderFault(api, maps) == \A i \in 1..Len(maps) : ~RenderFault(api, maps[i])

\* The length of the block of a reference that has one.
BlockLen(api, ref) ==
    IF api[ref].n = 0 THEN (IF ref.map_type = "s" THEN 15 ELSE 12) ELSE api[ref].text_len

RECURSIVE SumCharged(_, _, _)
SumChargedFrom(api, sep, refs, ref) ==
    BlockLen(api, ref) + sep + SumCharged(api, sep, refs \ {ref})

\* The blocks of a set of references, each with one separator.
SumCharged(api, sep, refs) ==
    IF refs = {} THEN 0 ELSE SumChargedFrom(api, sep, refs, CHOOSE ref \in refs : TRUE)

\* Every distinct reference of the call has a block and all of them, each
\* with a separator, fit under the ceiling: line 139 is never true.
CeilingNotReached ==
    /\ NoLookupError(call.api, call.maps)
    /\ NoRenderFault(call.api, call.maps)
    /\ base_len(call.tmpl) + SumCharged(call.api, sep_len(call.tmpl), DistinctRefs(call.maps))
         <= CharLimit

\* C11: as long as the ceiling is not reached, the comment has exactly one
\* block per distinct reference of the list, and the blocks stand in the
\* order of the references' first occurrences.
C11_StableDedup ==
    (call.fn = "format_comment" /\ call.done /\ CeilingNotReached)
    => /\ call.out.tag = "ok"
       /\ Len(call.out.blocks) = Cardinality(DistinctRefs(call.maps))
       /\ \A ref \in DistinctRefs(call.maps) :
             \E i \in 1..Len(call.out.blocks) : call.out.blocks[i].ref = ref
       /\ \A i, j \in 1..Len(call.out.blocks) :
             i < j => FirstPos(call.maps, call.out.blocks[i].ref)
                        < FirstPos(call.maps, call.out.blocks[j].ref)

\* A list that names one reference twice around another, composed whole.
C11_Witness ==
    /\ call.fn = "format_comment" /\ call.done /\ CeilingNotReached
    /\ Len(call.maps) = 3
    /\ call.maps[1] = call.maps[3]
    /\ call.maps[1] # call.maps[2]
    /\ Len(call.out.blocks) = 2
    /\ \A i \in 1..2 : call.out.blocks[i].kind \in {"map", "mapset"}

\* A finished call of format_comment on distinct references whose blocks
\* all have one size, under a template that fits the ceiling by itself.
UniformCall ==
    /\ call.fn = "format_comment"
    /\ call.done
    /\ call.uniform
    /\ base_len(call.tmpl) <= CharLimit

\* A uniform call that returned a comment.
UniformReturned == UniformCall /\ call.out.tag = "ok"

\* B, the size of every block of a uniform call.
UniformB == call.api[RefSeq[1]].text_len

\* sep + B, what every block is charged at line 139.
UniformStep == sep_len(call.tmpl) + UniformB

\* L - H: what the ceiling leaves after header, footer and line breaks.
UniformRoom == CharLimit - base_len(call.tmpl)

\* The length of the comment with k blocks of size B.
UniformLength(k) == base_len(call.tmpl) + k * UniformB + (k - 1) * sep_len(call.tmpl)

\* C12: with enough distinct references whose blocks all have size B, the
\* comment has exactly floor((L-H)/(B+sep)) blocks; a block with which the
\* comment fits the ceiling exactly is included and a block with which it
\* is one character over is excluded.
C12_CeilingCount_Original ==
    UniformReturned
    => /\ Len(call.maps) >= UniformRoom \div UniformStep
          => Len(call.out.blocks) = UniformRoom \div UniformStep
       /\ \A k \in 1..Len(call.maps) :
             /\ UniformLength(k) = CharLimit => Len(call.out.blocks) >= k
             /\ UniformLength(k) = CharLimit + 1 => Len(call.out.blocks) < k

\* The number of blocks line 139 lets in: none when the first block with a
\* separator exceeds L - H, else floor((L-H+sep)/(B+sep)).
UniformCount ==
    IF UniformStep > UniformRoom THEN 0
    ELSE (UniformRoom + sep_len(call.tmpl)) \div UniformStep

\* C12 as the code has it: with enough distinct references whose blocks
\* all have size B, the comment has no block when H+sep+B > L and else
\* exactly floor((L-H+sep)/(B+sep)) blocks.  Line 139 charges a separator
\* for every block, the first included: a second or later block with which
\* the comment fits the ceiling exactly is included and one with which it
\* is one character over is excluded, while the first block is included
\* exactly when H+sep+B <= L.  format_comment returns the comment unless
\* a block is left out and the print of line 140 raises.
C12_CeilingCount ==
    /\ UniformReturned
       => /\ Len(call.out.blocks) = Min(Len(call.maps), UniformCount)
          /\ \A k \in 2..Len(call.maps) :
                /\ UniformLength(k) = CharLimit => Len(call.out.blocks) >= k
                /\ UniformLength(k) = CharLimit + 1 => Len(call.out.blocks) < k
          /\ Len(call.maps) >= 1
             => (Len(call.out.blocks) >= 1 <=> base_len(call.tmpl) + UniformStep <= CharLimit)
    /\ UniformCall
       => (call.out.tag = "raise"
             <=> (call.print_fault = 140 /\ Len(call.maps) > UniformCount))

\* Three references, two blocks, and the comment is as long as the ceiling.
C12_Witness ==
    /\ UniformCall
    /\ Len(call.maps) = 3
    /\ Len(call.out.blocks) = 2
    /\ call.out.length = CharLimit

\* C17: when header, footer and the two line breaks fit within the ceiling,
\* the text format_comment returns is never longer than the ceiling,
\* whatever the reference list, the block sizes and the separator.
C17_NeverOverCeiling ==
    (call.fn = "format_comment" /\ call.done /\ call.out.tag = "ok"
       /\ base_len(call.tmpl) <= CharLimit)
    => call.out.length <= CharLimit

\* Two of three blocks make a comment exactly as long as the ceiling, and
\* the third is left out.
C17_Witness ==
    /\ call.fn = "format_comment" /\ call.done /\ call.out.tag = "ok"
    /\ ~call.uniform
    /\ Cardinality(DistinctRefs(call.maps)) = 3
    /\ Len(call.out.blocks) = 2
    /\ call.out.length = CharLimit

\* The place of a reference among the distinct references of a list, in
\* the order of first occurrences.
Rank(maps, ref) ==
    Cardinality({q \in DistinctRefs(maps) : FirstPos(maps, q) <= FirstPos(maps, ref)})

\* The distinct reference at a place.
RefAt(maps, k) == CHOOSE ref \in DistinctRefs(maps) : Rank(maps, ref) = k

\* Whether a block of a reference would fit after the blocks of a comment.
WouldFit(ref) ==
    /\ call.api[ref].tag # "error"
    /\ call.out.length + sep_len(call.tmpl) + BlockLen(call.api, ref) <= CharLimit

\* C18: the blocks of a comment are a prefix of the de-duplicated reference
\* list: the first reference whose block would exceed the ceiling ends the
\* composition, and no later reference is included, fit or not.
C18_PrefixOnly ==
    (call.fn = "format_comment" /\ call.done /\ call.out.tag = "ok")
    => /\ \A i \in 1..Len(call.out.blocks) :
             Rank(call.maps, call.out.blocks[i].ref) = i
       /\ Len(call.out.blocks) < Cardinality(DistinctRefs(call.maps))
          => ~WouldFit(RefAt(call.maps, Len(call.out.blocks) + 1))

\* The second of three blocks does not fit, the third would have, and the
\* comment has the first block only.
C18_Witness ==
    /\ call.fn = "format_comment" /\ call.done /\ call.out.tag = "ok"
    /\ Cardinality(DistinctRefs(call.maps)) = 3
    /\ Len(call.out.blocks) = 1
    /\ WouldFit(RefAt(call.maps, 3))

\* The kind of block the answer of a lookup calls for when it has one.
BlockKind(api, ref) ==
    IF api[ref].n = 0 THEN (IF ref.map_type = "s" THEN "Invalid mapset." ELSE "Invalid map.")
    ELSE IF api[ref].n = 1 THEN "map" ELSE "mapset"

SomeLookupError(api, maps) == \E i \in 1..Len(maps) : api[maps[i]].tag = "error"

SomeRenderFault(api, maps) == \E i \in 1..Len(maps) : RenderFault(api, maps[i])

\* A comment was composed, and each block is what its lookup calls for.
ComposedAsLookedUp(comment) ==
    /\ comment.tag = "ok"
    /\ \A i \in 1..Len(comment.blocks) :
          comment.blocks[i].kind = BlockKind(call.api, comment.blocks[i].ref)
    /\ CeilingNotReached
       => Len(comment.blocks) = Cardinality(DistinctRefs(call.maps))

\* C16 as stated: an empty list from the lookup is no fault.  When no
\* lookup of the list fails the comment is composed, with the placeholder
\* for every reference whose lookup is empty and the rendered block for the
\* others, and reply posts it (for a thing that is not the bot's own, on a
\* platform that takes it); format_comment raises only when a lookup fails,
\* it does when the first lookup fails, and then line 221 raises and posts
\* nothing.
C16_EmptyLookupIsNoFault_Original ==
    /\ (call.fn = "format_comment" /\ call.done)
       => /\ ~SomeLookupError(call.api, call.maps) => ComposedAsLookedUp(call.out)
          /\ call.out.tag = "raise" => SomeLookupError(call.api, call.maps)
          /\ (call.maps # <<>> /\ call.api[call.maps[1]].tag = "error")
             => call.out.tag = "raise"
    /\ (call.fn = "reply" /\ call.done)
       => /\ ~SomeLookupError(call.api, call.maps)
             => /\ ComposedAsLookedUp(call.out.text)
                /\ (call.platform = "ok" /\ call.thing.author # botname)
                   => (call.out.posted /\ ~call.out.raised)
          /\ call.out.raised
             => (SomeLookupError(call.api, call.maps) \/ call.platform = "fault")
          /\ call.out.text.tag = "raise" => (call.out.raised /\ ~call.out.posted)
          /\ call.api[call.maps[1]].tag = "error" => call.out.text.tag = "raise"

\* The references of the call whose lookup returns an empty list.
EmptyLookups == {ref \in DistinctRefs(call.maps) : call.api[ref] = ApiRecords(0, 0, 0)}

\* The call but for the answers of the empty lookups, which are records.
WithRecords == [ref \in RefPool |->
                  IF ref \in EmptyLookups THEN ApiRecords(1, invalid_map(ref).len, 0)
                  ELSE call.api[ref]]

\* Some block may be left out and the print of line 140 raises.
LimitPrintFault == call.print_fault = 140 /\ ~CeilingNotReached

\* The placeholder of a reference whose lookup is empty is in the comment
\* when the comment has a block for the reference at all.
PlaceholdersIn(comment) ==
    \A i \in 1..Len(comment.blocks) :
        comment.blocks[i].ref \in EmptyLookups
        => comment.blocks[i] = invalid_map(comment.blocks[i].ref)

\* C16 as the code has it: an empty list from the lookup is no fault: its
\* reference gets the placeholder, and format_comment raises for a list
\* with empty lookups only if it raises with records in their place of the
\* placeholder's length.  When no lookup of the list fails, format_map can
\* render every record and the print of line 140 does not raise, the
\* comment is composed, with the placeholder for every reference whose
\* lookup is empty and the rendered block for the others, and reply posts
\* it (for a thing that is not the bot's own, on a platform that takes it,
\* when no print of reply raises).  format_comment raises only when a
\* lookup fails, format_map cannot render a record (lines 93-110), or a
\* block is left out and the print of line 140 raises; it does when the
\* first lookup fails or the first record cannot be rendered, and then
\* line 221 raises and posts nothing.  reply raises besides only when the
\* platform does or one of its prints does.
C16_EmptyLookupIsNoFault ==
    /\ (call.fn = "format_comment" /\ call.done)
       => /\ (~SomeLookupError(call.api, call.maps) /\ ~SomeRenderFault(call.api, call.maps)
               /\ ~LimitPrintFault)
             => ComposedAsLookedUp(call.out)
          /\ call.out.tag = "ok" => PlaceholdersIn(call.out)
          /\ call.out.tag = "raise"
             => /\ \/ SomeLookupError(call.api, call.maps)
                   \/ SomeRenderFault(call.api, call.maps)
                   \/ LimitPrintFault
                /\ format_comment(WithRecords, call.tmpl, call.maps, call.print_fault).tag
                     = "raise"
          /\ (call.maps # <<>>
              /\ (call.api[call.maps[1]].tag = "error" \/ RenderFault(call.api, call.maps[1])))
             => call.out.tag = "raise"
    /\ (call.fn = "reply" /\ call.done)
       => /\ (~SomeLookupError(call.api, call.maps) /\ ~SomeRenderFault(call.api, call.maps)
               /\ ~LimitPrintFault)
             => /\ ComposedAsLookedUp(call.out.text)
                /\ (call.platform = "ok" /\ call.thing.author # botname
                    /\ call.print_fault \notin {194, 204})
                   => (call.out.posted /\ ~call.out.raised)
          /\ call.out.text.tag = "ok" => PlaceholdersIn(call.out.text)
          /\ call.out.raised
             => \/ SomeLookupError(call.api, call.maps)
                \/ SomeRenderFault(call.api, call.maps)
                \/ LimitPrintFault
                \/ call.platform = "fault"
                \/ call.print_fault \in {192, 194, 204}
          /\ call.out.text.tag = "raise" => (call.out.raised /\ ~call.out.posted)
          /\ (call.api[call.maps[1]].tag = "error" \/ RenderFault(call.api, call.maps[1]))
             => call.out.text.tag = "raise"

\* A reply was posted whose text has a placeholder and a rendered block.
C16_Witness ==
    /\ call.fn = "reply" /\ call.done
    /\ call.out.posted
    /\ Len(call.out.text.blocks) = 2
    /\ call.out.text.blocks[1].kind = "Invalid map."
    /\ call.out.text.blocks[2].kind = "mapset"

(***************************************************************************)
(* The loop: claims C13, C14, C19 and C20.                                 *)
(***************************************************************************)
\* Something was done for the thing of a log entry after line 212.
Processed(e) == e.extracted \/ e.checked \/ e.composed \/ e.posted

\* The entry the step has added to the log.
Added == walk_log'[Len(walk_log')]

\* The step is one pass of the walk of a stream through the loop body.
PassOf(st) ==
    /\ pc = WalkPc(st)
    /\ idx <= Len(content)
    /\ Len(walk_log') = Len(walk_log) + 1

\* C13: the id of a thing is in the RecencySet before anything else is done
\* for the thing, a fault in extraction, has_replied, composition or
\* posting leaves it there, and as long as an id is in the set no walk
\* extracts from, checks or replies to its thing: the pass that meets it
\* does nothing, and no reply to it reaches the platform.
C13_RecordedBeforeProcessed ==
    /\ [](/\ \A k \in 1..Len(walk_log) : Processed(walk_log[k]) => walk_log[k].recorded
          /\ (walk_end = "fault" /\ Len(walk_log) > 0)
             => /\ walk_log[Len(walk_log)].recorded
                /\ walk_log[Len(walk_log)].id \in Held(seen[WalkType]))
    /\ [][\A st \in StreamTypes :
            /\ (PassOf(st) /\ content[idx].id \in Held(seen[st]))
               => (Added.id = content[idx].id /\ Untouched(Added) /\ seen' = seen)
            /\ \A id \in Held(seen[st]) : replies'[st][id] = replies[st][id]]_vars

\* A thing with a map that a walk recorded and that has no reply: its pass
\* ended in a fault.  A later walk has met it and has left it alone.
C13_Witness ==
    /\ walk_end = "seen"
    /\ Len(walk_log) = 1
    /\ Untouched(walk_log[1])
    /\ content[1].body = MapBody
    /\ content[1].author # botname
    /\ replies[WalkType][content[1].id] = 0
    /\ content[1].id \in Held(seen[WalkType])

\* What extraction finds in the thing of the k-th pass of the walk.
FoundAt(k) == maps_from_thing[content[k].type][content[k].body]

\* C14 as stated: has_replied is called for a thing only when its id was
\* not in the RecencySet as its pass began and extraction found a reference
\* in it; a thing not seen before that has no reference, a submission
\* without a body included, gets no has_replied call and no reply, and the
\* walk goes on to the next thing.
C14_CheckedOnlyWithMaps_Original ==
    \A k \in 1..Len(walk_log) :
        /\ walk_log[k].id = content[k].id
        /\ walk_log[k].checked
           => (walk_log[k].recorded /\ FoundAt(k).tag = "ok" /\ Len(FoundAt(k).maps) > 0)
        /\ (walk_log[k].recorded /\ no_maps(FoundAt(k)))
           => /\ ~walk_log[k].checked
              /\ ~walk_log[k].composed
              /\ ~walk_log[k].posted
              /\ walk_log[k].outcome = "no_maps"
              /\ WentOn(k)

\* C14 as the code has it: has_replied is called for a thing only when its
\* id was not in the RecencySet as its pass began and extraction found a
\* reference in it; a thing not seen before that has no reference, a
\* submission without a body included, gets no has_replied call and no
\* reply, and the walk goes on to the next thing, unless the print of line
\* 215 raises, which aborts the walk as any fault does, or an interrupt
\* ends the process in that pass.
C14_CheckedOnlyWithMaps ==
    \A k \in 1..Len(walk_log) :
        /\ walk_log[k].id = content[k].id
        /\ walk_log[k].checked
           => (walk_log[k].recorded /\ FoundAt(k).tag = "ok" /\ Len(FoundAt(k).maps) > 0)
        /\ (walk_log[k].recorded /\ no_maps(FoundAt(k)))
           => /\ ~walk_log[k].checked
              /\ ~walk_log[k].composed
              /\ ~walk_log[k].posted
              /\ \/ walk_log[k].outcome = "no_maps" /\ WentOn(k)
                 \/ /\ walk_log[k].outcome = "print_fault"
                    /\ k = Len(walk_log)
                    /\ walk_end = "fault"
                    /\ pc \in {"backoff", "exited"}
                 \/ /\ walk_log[k].outcome = "interrupted"
                    /\ k = Len(walk_log)
                    /\ pc = "exited"

\* A submission without a body was passed over and the walk ran to its end.
C14_Witness ==
    /\ WalkType = "submission"
    /\ Len(walk_log) = 1
    /\ ~content[1].body.present
    /\ walk_log[1].recorded
    /\ ~walk_log[1].checked
    /\ walk_end = "exhausted"

\* The ids a stream's set holds from walks that are over.
Settled(st) ==
    IF pc = WalkPc(st) THEN Held(seen[st]) \ RecordedInWalk ELSE Held(seen[st])

\* C19: a walk that a fault aborts at a thing X leaves X in the RecencySet,
\* and from then on, as long as X is there, a walk of this process stops at
\* X or before it: no thing older than X is recorded, checked or replied to
\* (the ids of a stream grow with time, so older means smaller).
C19_OlderNeverReached ==
    /\ []((walk_end = "fault" /\ Len(walk_log) > 0)
          => walk_log[Len(walk_log)].id \in Settled(WalkType))
    /\ [][\A st \in StreamTypes : \A x \in Settled(st) :
            /\ (PassOf(st) /\ content[idx].id <= x)
               => (Untouched(Added) /\ pc' # WalkPc(st))
            /\ \A y \in 1..(x - 1) :
                  /\ y \notin Held(seen[st]) => y \notin Held(seen'[st])
                  /\ replies'[st][y] = replies[st][y]]_vars

\* A thing whose extraction faults is in the set, a walk has stopped at it,
\* and the older thing behind it in the listing has never been recorded.
C19_Witness ==
    /\ walk_end = "seen"
    /\ Len(walk_log) = 1
    /\ Untouched(walk_log[1])
    /\ content[1].body = UserPageBody
    /\ Len(content) = 2
    /\ content[2].id \notin Held(seen[WalkType])
    /\ replies[WalkType][content[2].id] = 0

\* The process is in the comments walk of line 234.
InCommentsWalk == pc \in {"poll_comments", "walk_comments"}

\* The step leaves everything of the submissions stream as it is.
SubmissionsUntouched ==
    /\ seen'["submission"] = seen["submission"]
    /\ replies'["submission"] = replies["submission"]

\* C20: a fault in the comments walk aborts the whole iteration: the
\* process goes to the backoff sleep, not to the submissions walk or the
\* short sleep, seen_submissions is as it was, and what follows the backoff
\* is the comments walk of the next iteration.
C20_FaultAbortsIteration ==
    [][/\ (InCommentsWalk /\ walk_end' = "fault")
          => (pc' = "backoff" /\ SubmissionsUntouched)
       /\ pc = "backoff"
          => /\ pc' \in {"backoff", "poll_comments", "exited", "boot"}
             /\ pc' # "boot" => SubmissionsUntouched]_vars

=============================================================================
